---- MODULE Spec2Model ----
(***************************************************************************)
(* Folding-rule engine of plover-custom-folding: the fold hypotheses       *)
(* (Case, Condition, Clause, Statement, Prerequisite), the Rule dispatch   *)
(* with its fold-claim table and unmatched-rule memo (lib/Rule.py and      *)
(* lib/builder.py), the lookup strategies, and the dictionary layer        *)
(* (PythonFoldingDictionary) through which the external lookup re-enters   *)
(* the engine.                                                             *)
(***************************************************************************)
EXTENDS Integers, Sequences, FiniteSets, TLC

(***************************************************************************)
(* Chord values.  A Stroke is the set of its keys; + is union, - is        *)
(* difference, `b in a' is inclusion.                                      *)
(***************************************************************************)
Keys == {"T", "O", "Z", "D"}

empty_stroke == {}

toggle_substroke(stroke, substroke) ==
    IF substroke \subseteq stroke THEN stroke \ substroke
                                  ELSE stroke \cup substroke

\* ~(~a | ~b) != 0: complement within the key alphabet, then De Morgan.
strokes_overlap(a, b) ==
    (Keys \ ((Keys \ a) \cup (Keys \ b))) # {}

\* The dict comprehension keeps, for a chord value that occurs twice, the
\* index of its last occurrence.
create_stroke_index_mapping(strokes) ==
    [stroke \in {strokes[i] : i \in DOMAIN strokes} |->
        CHOOSE i \in DOMAIN strokes :
            /\ strokes[i] = stroke
            /\ \A j \in DOMAIN strokes : strokes[j] = stroke => j <= i]

(***************************************************************************)
(* Stroke filters of the clause builders: first_stroke, last_stroke and    *)
(* all_strokes.  A filter returns chord values, not positions.             *)
(***************************************************************************)
stroke_filter(name, strokes) ==
    CASE name = "first_stroke" -> <<strokes[1]>>
      [] name = "last_stroke"  -> <<strokes[Len(strokes)]>>
      [] name = "all_strokes"  -> strokes

(***************************************************************************)
(* Generators are modelled by the sequence of the values they yield, in    *)
(* the order they yield them.                                              *)
(***************************************************************************)
RECURSIVE flatten(_)
flatten(seqs) ==
    IF seqs = <<>> THEN <<>> ELSE Head(seqs) \o flatten(Tail(seqs))

\* The body of _all_combinations for one position: the outer loop runs over
\* the options of that position, the inner one over the combinations of the
\* positions before it.
extend_combinations(shorter, position_options) ==
    flatten([o \in DOMAIN position_options |->
                [c \in DOMAIN shorter |-> Append(shorter[c], position_options[o])]])

\* _all_combinations(options, last_index = n - Len(options) - 1).
RECURSIVE all_combinations_upto(_, _)
all_combinations_upto(options, n) ==
    IF n = 0 THEN << <<>> >>
    ELSE extend_combinations(all_combinations_upto(options, n - 1), options[n])

all_combinations(options) == all_combinations_upto(options, Len(options))

(***************************************************************************)
(* Case: [contained, toggled].                                             *)
(***************************************************************************)
Case(contained_substroke, toggled_substroke) ==
    [contained |-> contained_substroke, toggled |-> toggled_substroke]

satisfied_by_some(case, filtered_strokes) ==
    \E i \in DOMAIN filtered_strokes : case.contained \subseteq filtered_strokes[i]

satisfied_by(case, filtered_strokes) ==
    \A i \in DOMAIN filtered_strokes : case.contained \subseteq filtered_strokes[i]

remove_fold_keeps_contained(case, stroke) ==
    toggle_substroke(stroke, case.toggled)

remove_fold(case, stroke) ==
    toggle_substroke(stroke \ case.contained, case.toggled)

fold_substroke(case) == case.contained \cup case.toggled

(***************************************************************************)
(* Condition: a sequence of Cases.                                         *)
(***************************************************************************)
satisifed_cases(cases, filtered_strokes) ==
    SelectSeq(cases, LAMBDA case : satisfied_by(case, filtered_strokes))

(***************************************************************************)
(* _CaseGroup: a sequence of [case, filter] pairs.                         *)
(***************************************************************************)
case_groups(options, filter) ==
    LET combos == all_combinations(options)
    IN  [g \in DOMAIN combos |->
            [k \in DOMAIN combos[g] |-> [case |-> combos[g][k], filter |-> filter]]]

\* The positions a case group writes, in the order of its two loops: for
\* each (case, filter), for each chord the filter selects, the index the
\* mapping gives that chord value.
group_targets(group, strokes) ==
    LET mapping == create_stroke_index_mapping(strokes)
    IN  flatten([k \in DOMAIN group |->
            LET selected == stroke_filter(group[k].filter, strokes)
            IN  [s \in DOMAIN selected |->
                    [case |-> group[k].case, index |-> mapping[selected[s]]]]])

RECURSIVE apply_remove(_, _)
apply_remove(new_strokes, targets) ==
    IF targets = <<>> THEN new_strokes
    ELSE LET t == Head(targets)
         IN  apply_remove(
                [new_strokes EXCEPT ![t.index] = remove_fold(t.case, new_strokes[t.index])],
                Tail(targets))

remove_folds(group, strokes) == apply_remove(strokes, group_targets(group, strokes))

RECURSIVE apply_folds(_, _)
apply_folds(new_folds, targets) ==
    IF targets = <<>> THEN new_folds
    ELSE LET t == Head(targets)
         IN  apply_folds(
                [new_folds EXCEPT ![t.index] = new_folds[t.index] \cup fold_substroke(t.case)],
                Tail(targets))

get_folds(group, strokes) ==
    apply_folds([i \in DOMAIN strokes |-> empty_stroke], group_targets(group, strokes))

merge(group, case_group) == group \o case_group

(***************************************************************************)
(* Clause and Statement.  An element is a record with a kind:              *)
(*   [kind |-> "clause", filter, conditions]                               *)
(*   [kind |-> "statement", conjunctive, substatements]                    *)
(***************************************************************************)
Clause(filter, conditions) ==
    [kind |-> "clause", filter |-> filter, conditions |-> conditions]

Statement(conjunctive, substatements) ==
    [kind |-> "statement", conjunctive |-> conjunctive, substatements |-> substatements]

clause_satisfied_case_groups(clause, strokes) ==
    LET case_combinations ==
            [c \in DOMAIN clause.conditions |->
                satisifed_cases(clause.conditions[c], stroke_filter(clause.filter, strokes))]
    IN  case_groups(case_combinations, clause.filter)

every_satisfied(sequences) == flatten(sequences)

RECURSIVE first_satisfied(_)
first_satisfied(sequences) ==
    IF sequences = <<>> THEN <<>>
    ELSE IF Head(sequences) # <<>> THEN Head(sequences)
    ELSE first_satisfied(Tail(sequences))

RECURSIVE satisfied_case_groups(_, _)
satisfied_case_groups(element, strokes) ==
    IF element.kind = "clause" THEN clause_satisfied_case_groups(element, strokes)
    ELSE LET case_group_sequences ==
                [s \in DOMAIN element.substatements |->
                    satisfied_case_groups(element.substatements[s], strokes)]
         IN  IF element.conjunctive
             THEN \* the running group takes every group of every combination,
                  \* and is yielded once, after the loops
                  << flatten(flatten(all_combinations(case_group_sequences))) >>
             ELSE first_satisfied(case_group_sequences)

(***************************************************************************)
(* Prerequisite: the (defolded, folds) pairs in the order they are yielded.*)
(***************************************************************************)
satisfied_folds_until_satisfied(elements, strokes) ==
    LET pairs_of(e) ==
            LET groups == satisfied_case_groups(elements[e], strokes)
            IN  [g \in DOMAIN groups |->
                    [defolded |-> remove_folds(groups[g], strokes),
                     folds    |-> get_folds(groups[g], strokes)]]
    IN  first_satisfied([e \in DOMAIN elements |-> pairs_of(e)])

satisfied_folds(elements, strokes) ==
    flatten([e \in DOMAIN elements |->
        LET groups == satisfied_case_groups(elements[e], strokes)
        IN  [g \in DOMAIN groups |->
                [defolded |-> remove_folds(groups[g], strokes),
                 folds    |-> get_folds(groups[g], strokes)]]])

(***************************************************************************)
(* Lookup strategies: [handler, string].                                   *)
(***************************************************************************)
unfold_suffix == [handler |-> "unfold_suffix", string |-> "", stroke |-> {}]
unfold_prefix == [handler |-> "unfold_prefix", string |-> "", stroke |-> {}]
use_defolded_translation == [handler |-> "use_defolded_translation", string |-> "", stroke |-> {}]
suffix_translation(string) == [handler |-> "suffix_translation", string |-> string, stroke |-> {}]
\* suffix_outline with a one-chord argument: the chord is added to the last
\* chord of the defolded outline before the lookup.
suffix_outline(new_stroke) == [handler |-> "suffix_outline", string |-> "", stroke |-> new_stroke]

\* The outline a strategy looks up first: _TranslationModificationGatherer's
\* modify_outline applied to the defolded outline, the defolded outline itself
\* for every other strategy.
modify_outline(strategy, strokes) ==
    IF strategy.handler = "suffix_outline"
    THEN [strokes EXCEPT ![Len(strokes)] = strategy.stroke \cup strokes[Len(strokes)]]
    ELSE strokes

modify_translation_dropped(strategy, translation) == translation

\* The translation a one-lookup strategy returns for a base translation.
modify_translation(strategy, translation) ==
    IF strategy.handler = "suffix_translation"
    THEN translation \o strategy.string
    ELSE translation

(***************************************************************************)
(* Rule: the five fields of the constructor.  Rules are compared by        *)
(* identity in the source, so the rules of a rule set are named and the    *)
(* additional and alternative rules are given by name.                     *)
(***************************************************************************)
Rule(prerequisite, lookup_strategies, additional_rules, alternative_rules, allow_shorter_outline) ==
    [prerequisite          |-> prerequisite,
     lookup_strategies     |-> lookup_strategies,
     additional_rules      |-> additional_rules,
     alternative_rules     |-> alternative_rules,
     allow_shorter_outline |-> allow_shorter_outline]

\* or_also, unless_also and preferring_folds: each builds a new Rule from the
\* fields of the receiver.
or_also_prepends(rule, alternative_rules) ==
    Rule(rule.prerequisite, rule.lookup_strategies, rule.additional_rules,
         alternative_rules \o rule.alternative_rules, rule.allow_shorter_outline)

or_also(rule, alternative_rules) ==
    Rule(rule.prerequisite, rule.lookup_strategies, rule.additional_rules,
         rule.alternative_rules \o alternative_rules, rule.allow_shorter_outline)

unless_also(rule, additional_rules) ==
    Rule(rule.prerequisite, rule.lookup_strategies,
         rule.additional_rules \o additional_rules, rule.alternative_rules,
         rule.allow_shorter_outline)

preferring_folds(rule) ==
    Rule(rule.prerequisite, rule.lookup_strategies, rule.additional_rules,
         rule.alternative_rules, TRUE)

\* A grouping rule whose prerequisite is one clause without conditions,
\* which every outline satisfies with no fold.
group_rules_always_satisfied(grouped_rules) ==
    Rule(<<Clause("all_strokes", <<>>)>>, <<>>, grouped_rules, <<>>, FALSE)

\* group_rules(*rules): Rule(_Prerequisite(()), (), rules).
group_rules(grouped_rules) ==
    Rule(<<>>, <<>>, grouped_rules, <<>>, FALSE)

\* _ClauseBuilder.folds / toggles on one-key substrokes: one Condition whose
\* Cases follow the (stable) sort of the arguments by length.
folds_clause(filter, substrokes) ==
    Clause(filter, << [k \in DOMAIN substrokes |-> Case(substrokes[k], empty_stroke)] >>)

toggles_clause(filter, substrokes) ==
    Clause(filter, << [k \in DOMAIN substrokes |-> Case(empty_stroke, substrokes[k])] >>)

T  == {"T"}
O  == {"O"}
Z  == {"Z"}
D  == {"D"}

(***************************************************************************)
(* The rule set under study.                                               *)
(*   suffix_Z  when(last_stroke.folds("-Z")).then(unfold_suffix)           *)
(*   plural_Z  when(last_stroke.folds("-Z")).then(suffix_translation("s")) *)
(*   inner_ZD  when(last_stroke.folds("-Z", "-D"))                         *)
(*                 .then(use_defolded_translation)                         *)
(*   toggle_Z  when(last_stroke.toggles("-Z"))                             *)
(*                 .then(use_defolded_translation).unless_also(inner_ZD)   *)
(*   past_D    when(last_stroke.folds("-D")).then(suffix_translation("ed"))*)
(*   full_D    when(last_stroke.folds("-D"), first_stroke.folds("-D"))     *)
(*                 .then(unfold_suffix, use_defolded_translation)          *)
(*                 .unless_also(plural_Z).or_also(toggle_Z, past_D)        *)
(*   both_TZ   when_all(first_stroke.folds("T"), last_stroke.folds("-Z"))  *)
(*                 .then(unfold_prefix).preferring_folds()                 *)
(*   add_D     when(last_stroke.folds("-Z")).then(suffix_outline("-D"))    *)
(*   prefer_D  when(last_stroke.folds("-D")).then(suffix_translation("ed"))*)
(*                 .preferring_folds()                                     *)
(*   group_DZ  group_rules(past_D, plural_Z)                               *)
(***************************************************************************)
RuleIds == {"suffix_Z", "plural_Z", "inner_ZD", "toggle_Z", "past_D", "full_D", "both_TZ", "add_D",
            "prefer_D", "group_DZ"}

RuleDefs ==
    [r \in RuleIds |->
        CASE r = "suffix_Z" ->
                Rule(<<folds_clause("last_stroke", <<Z>>)>>, <<unfold_suffix>>, <<>>, <<>>, FALSE)
          [] r = "plural_Z" ->
                Rule(<<folds_clause("last_stroke", <<Z>>)>>, <<suffix_translation("s")>>, <<>>, <<>>, FALSE)
          [] r = "inner_ZD" ->
                Rule(<<folds_clause("last_stroke", <<Z, D>>)>>, <<use_defolded_translation>>, <<>>, <<>>, FALSE)
          [] r = "toggle_Z" ->
                Rule(<<toggles_clause("last_stroke", <<Z>>)>>, <<use_defolded_translation>>,
                     <<"inner_ZD">>, <<>>, FALSE)
          [] r = "past_D" ->
                Rule(<<folds_clause("last_stroke", <<D>>)>>, <<suffix_translation("ed")>>, <<>>, <<>>, FALSE)
          [] r = "full_D" ->
                Rule(<<folds_clause("last_stroke", <<D>>), folds_clause("first_stroke", <<Z>>)>>,
                     <<unfold_suffix, use_defolded_translation>>,
                     <<"plural_Z">>, <<"toggle_Z", "past_D">>, FALSE)
          [] r = "both_TZ" ->
                Rule(<<Statement(TRUE, <<folds_clause("first_stroke", <<T>>), folds_clause("last_stroke", <<Z>>)>>)>>,
                     <<unfold_prefix>>, <<>>, <<>>, TRUE)
          [] r = "add_D" ->
                Rule(<<folds_clause("last_stroke", <<Z>>)>>, <<suffix_outline(D)>>, <<>>, <<>>, FALSE)
          [] r = "prefer_D" ->
                preferring_folds(
                    Rule(<<folds_clause("last_stroke", <<D>>)>>, <<suffix_translation("ed")>>,
                         <<>>, <<>>, FALSE))
          [] r = "group_DZ" ->
                group_rules(<<"past_D", "plural_Z">>)]

(***************************************************************************)
(* Bounds of the model.                                                    *)
(***************************************************************************)
MaxLen == 2        \* longest outline the host looks up
MaxLookups == 2    \* top-level calls the host makes in one behaviour
MaxDepth == 16     \* cap on the call stack

StrokePool == {T, T \cup Z, T \cup D, Z}

RECURSIVE OutlinesOfLen(_)
OutlinesOfLen(n) ==
    IF n = 0 THEN {<<>>}
    ELSE {Append(o, st) : o \in OutlinesOfLen(n - 1), st \in StrokePool}

\* The outlines of the suffix-fold scenario: the chord TPHO is written with
\* the keys T and O of the four-key alphabet, once followed by the chord -Z
\* and once with -Z folded into it.
TPHO == T \cup O

ScenarioOutlines == {<<TPHO, Z>>, <<TPHO \cup Z>>}

\* An outline with two folds in one chord: a rule that folds -Z hands the
\* chord with -D still in it to the rules it calls.
TwoFoldOutlines == {<<T \cup Z \cup D>>}

Outlines == UNION {OutlinesOfLen(n) : n \in 1..MaxLen} \cup ScenarioOutlines \cup TwoFoldOutlines

\* A host dictionary from its entries <<outline, translation>>.
HostDictionary(entries) ==
    [o \in {e[1] : e \in entries} |-> (CHOOSE e \in entries : e[1] = o)[2]]

\* The hosts under study: the entries of the host's dictionaries, and the
\* outlines for which the host's lookup fails with an exception.
Hosts ==
    { [entries |-> HostDictionary({ <<<<T>>, "it">>, <<<<T, T>>, "it it">>,
                                    <<<<T, T \cup D>>, "it had">> }),
       failing |-> {}],
      [entries |-> HostDictionary({ <<<<T>>, "it">>, <<<<Z>>, "{^s}">>, <<<<D>>, "{^ed}">>,
                                    <<<<T, T>>, "it it">> }),
       failing |-> {}],
      [entries |-> HostDictionary({ <<<<T, T>>, "it it">>, <<<<T \cup D>>, "Ted">> }),
       failing |-> {<<T>>}],
      [entries |-> HostDictionary({ <<<<TPHO>>, "no">>, <<<<Z>>, "{plural}">> }),
       failing |-> {}] }

\* The rule lists a folding dictionary is loaded with (module.rules).
RuleLists ==
    { <<"suffix_Z", "plural_Z">>,
      <<"toggle_Z", "past_D">>,
      <<"full_D">>,
      <<"both_TZ", "suffix_Z">>,
      <<"add_D", "past_D">>,
      <<"past_D", "suffix_Z">>,
      <<"group_DZ">>,
      <<"prefer_D">> }

(***************************************************************************)
(* State.                                                                  *)
(***************************************************************************)
VARIABLES
    impl,                       \* which Rule class is in use: "Rule" (lib/Rule.py) or "builder" (lib/builder.py)
    rules,                      \* PythonFoldingDictionary.__rules
    dictionary,                 \* the host's own entries, behind translator.lookup
    failing,                    \* the outlines for which the host's lookup raises
    outline,                    \* the outline the host looks up
    host_call,                  \* how the host enters the engine
    wiring,                     \* whether the dictionary's rules are loaded and the container's translator set
    stack,                      \* the call stack: one frame per call in progress
    ret,                        \* the value the last finished call returned
    raised,                     \* the exception that ended the last top-level call
    current_folds,              \* Rule.__current_folds / Rule.__current_global_folds
    unmatched_rules,            \* Rule.__unmatched_rules
    current_rules,              \* PythonFoldingDictionary.__current_rules
    checking_shorter_outlines,  \* PythonFoldingDictionary.__checking_shorter_outlines
    lookups,                    \* top-level calls made so far
    finished,                   \* the Rule invocation that returned last
    container_checking,         \* TranslatorContainer.checking_shorter_outlines
    checked_shorter_outlines,   \* TranslatorContainer.__checked_shorter_outlines
    shorter_outline_length,     \* TranslatorContainer.__shorter_outline_length, class and instance
    last_check,                 \* the check_shorter_outlines call that returned last
    stroked,                    \* the stroked event, when it fired after the last top-level call
    applied                     \* the evaluation made at rule-definition time, with its result

config == <<impl, rules, dictionary, failing, outline, host_call, wiring, applied>>
container == <<container_checking, checked_shorter_outlines, shorter_outline_length, last_check>>
shared == <<current_folds, unmatched_rules, current_rules, checking_shorter_outlines>>
vars == <<impl, rules, dictionary, failing, outline, host_call, wiring, stack, ret, raised, current_folds,
          unmatched_rules, current_rules, checking_shorter_outlines, lookups, finished,
          container_checking, checked_shorter_outlines, shorter_outline_length, last_check,
          stroked, applied>>

\* Optional values: None, or a one-element tuple.
None == <<>>
Some(v) == <<v>>

NoFolds == [is_none |-> TRUE, folds |-> <<>>]
SomeFolds(tuple) == [is_none |-> FALSE, folds |-> tuple]

NoReturn == [set |-> FALSE, val |-> None]
NoException == [kind |-> "none", stack |-> <<>>]
NothingFinished ==
    [how |-> "none", rule |-> "", strokes |-> <<>>, shorter_outline_found |-> FALSE,
     result |-> None,
     entry_folds |-> NoFolds, exit_folds |-> NoFolds,
     entry_memo |-> <<>>, exit_memo |-> <<>>,
     pulled |-> 0, invoked |-> 0, calls |-> <<>>, results |-> <<>>, outcomes |-> <<>>]

\* The class attribute __shorter_outline_length and the instance attribute
\* of the same name that check_shorter_outlines assigns through self.
NoLength == [class_value |-> -1, instance_set |-> FALSE, instance_value |-> FALSE]
\* A value check_shorter_outlines returns: an int, or a bool (True is 1).
IntValue(n) == [type |-> "int", value |-> n]
BoolValue(b) == [type |-> "bool", value |-> IF b THEN 1 ELSE 0]
NoCheck == [how |-> "none", result |-> IntValue(0), after_event |-> FALSE]
NoEvent == [fired |-> FALSE, raised |-> "none"]

\* An evaluation made while the rules are defined: the operation, its
\* arguments (chords, case, clause and strokes, receiver and arguments), and
\* what it produced once it is done.
Evaluation(fn, chords, case, clause, strokes, receiver, arguments) ==
    [fn |-> fn, done |-> FALSE, raised |-> "none",
     chords |-> chords, case |-> case, chord |-> {},
     clause |-> clause, strokes |-> strokes, groups |-> <<>>,
     receiver |-> receiver, arguments |-> arguments,
     receiver_after |-> receiver, rule |-> receiver,
     statement |-> Statement(FALSE, <<>>), prerequisite |-> <<>>,
     pairs |-> <<>>, pairs_again |-> <<>>,
     condition |-> <<>>, cases |-> <<>>,
     group |-> <<>>, defolded |-> <<>>, folds |-> <<>>]

NoCase == Case({}, {})
NoClause == Clause("first_stroke", <<>>)

NotApplied == Evaluation("none", <<>>, NoCase, NoClause, <<>>, RuleDefs["suffix_Z"], <<>>)

Top == stack[Len(stack)]
Running(kind, pc) == stack # <<>> /\ Top.kind = kind /\ Top.pc = pc
WithTop(frame) == [stack EXCEPT ![Len(stack)] = frame]
Popped == SubSeq(stack, 1, Len(stack) - 1)

\* return val: the frame is popped and the caller finds the value in ret.
Return(val) ==
    /\ stack' = Popped
    /\ ret' = [set |-> TRUE, val |-> val]

\* The top frame, updated to `caller', calls `callee'.
Call(caller, callee) ==
    /\ Len(stack) < MaxDepth
    /\ stack' = Append(WithTop(caller), callee)
    /\ ret' = NoReturn

\* No frame of the source catches an exception: every frame is left at once,
\* and the shared state stays as the raising statement found it.
Raise(kind) ==
    /\ stack' = <<>>
    /\ ret' = NoReturn
    /\ raised' = [kind |-> kind, stack |-> stack]

rules_never_missing(configuration) == FALSE

\* self.__rules is None
rules_missing(configuration) == ~configuration.rules_loaded

\* translator_container.translator is None / self.translator is None
translator_missing(configuration) == ~configuration.translator

\* The two exceptions of a misconfigured plugin, by their messages.
NotLoaded == "Exception: tried looking up before dictionary was loaded"
NotEnabled == "Exception: EngineGetterExtension is not enabled"

RuleFrame(rule, strokes, shorter_outline_found) ==
    [kind |-> "rule", pc |-> "enter", rule |-> rule, strokes |-> strokes,
     shorter_outline_found |-> shorter_outline_found,
     pairs |-> <<>>, pair |-> 0, defolded_strokes |-> <<>>, folds |-> <<>>,
     last_folds |-> NoFolds, next |-> 0,
     \* bookkeeping of the model
     entry_folds |-> current_folds, entry_memo |-> unmatched_rules,
     invoked |-> 0, calls |-> <<>>, results |-> <<>>, outcomes |-> <<>>]

StrategyFrame(strategy, defolded_strokes, folds, strokes) ==
    [kind |-> "strategy", pc |-> "start", strategy |-> strategy,
     defolded_strokes |-> defolded_strokes, folds |-> folds, strokes |-> strokes,
     foldless_translation |-> None]

LookupFrame(strokes) == [kind |-> "lookup", pc |-> "start", strokes |-> strokes]

DictionaryFrame(strokes) ==
    [kind |-> "dictionary", pc |-> "enter", strokes |-> strokes,
     start_index |-> 0, rule_index |-> 0]

\* check_shorter_outlines(longest_key_len), called on the container.
CheckFrame(longest_key_len) ==
    [kind |-> "check", pc |-> "enter", longest_key_len |-> longest_key_len,
     strokes |-> <<>>, start_index |-> 0,
     \* bookkeeping of the model
     after_event |-> stroked.fired]

\* The host either asks the folding dictionary, or calls a rule of the rule
\* set directly as rule(strokes, translator, shorter_outline_found), or asks
\* the container whether a shorter outline translates;
\* lib/builder.py's Rule takes no third argument.
HostCalls(implementation, rule_list) ==
    {[kind |-> "lookup", rule |-> "", shorter_outline_found |-> FALSE, longest_key_len |-> 0]}
    \cup {[kind |-> "rule", rule |-> rule_list[i], shorter_outline_found |-> b,
            longest_key_len |-> 0] :
            i \in DOMAIN rule_list,
            b \in IF implementation = "Rule" THEN BOOLEAN ELSE {FALSE}}
    \cup {[kind |-> "check", rule |-> "", shorter_outline_found |-> FALSE,
            longest_key_len |-> n] : n \in 1..MaxLen}

\* The plugin as the host has wired it.  Without rules (self.__rules is None)
\* or without a translator the lookup raises before it looks at a rule, so
\* the misconfigured plugin is studied with one rule list.
Wirings(rule_list) ==
    IF rule_list = <<"prefer_D">>
    THEN [rules_loaded : BOOLEAN, translator : BOOLEAN]
    ELSE {[rules_loaded |-> TRUE, translator |-> TRUE]}

Init ==
    /\ impl \in {"Rule", "builder"}
    /\ rules \in RuleLists
    /\ \E host \in Hosts : dictionary = host.entries /\ failing = host.failing
    /\ outline \in Outlines
    /\ host_call \in HostCalls(impl, rules)
    /\ wiring \in Wirings(rules)
    /\ stack = <<>>
    /\ ret = NoReturn
    /\ raised = NoException
    /\ current_folds = NoFolds
    /\ unmatched_rules = <<>>
    /\ current_rules = {}
    /\ checking_shorter_outlines = FALSE
    /\ lookups = 0
    /\ finished = NothingFinished
    /\ container_checking = FALSE
    /\ checked_shorter_outlines = FALSE
    /\ shorter_outline_length = NoLength
    /\ last_check = NoCheck
    /\ stroked = NoEvent
    /\ applied = NotApplied

(***************************************************************************)
(* The host.                                                               *)
(***************************************************************************)
\* The host asks the folding dictionary for the outline (get / __getitem__).
HostLookup ==
    /\ stack = <<>>
    /\ lookups < MaxLookups
    /\ host_call.kind = "lookup"
    /\ lookups' = lookups + 1
    /\ stack' = <<DictionaryFrame(outline)>>
    /\ ret' = NoReturn
    /\ raised' = NoException
    /\ finished' = NothingFinished
    /\ stroked' = NoEvent
    /\ UNCHANGED <<config, container, shared>>

\* A rule of the rule set is called directly.
HostCallRule ==
    /\ stack = <<>>
    /\ lookups < MaxLookups
    /\ host_call.kind = "rule"
    /\ lookups' = lookups + 1
    /\ stack' = <<RuleFrame(host_call.rule, outline, host_call.shorter_outline_found)>>
    /\ ret' = NoReturn
    /\ raised' = NoException
    /\ finished' = NothingFinished
    /\ stroked' = NoEvent
    /\ UNCHANGED <<config, container, shared>>

\* The host asks the container whether a shorter outline translates.
HostCheckShorterOutlines ==
    /\ stack = <<>>
    /\ lookups < MaxLookups
    /\ host_call.kind = "check"
    /\ lookups' = lookups + 1
    /\ stack' = <<CheckFrame(host_call.longest_key_len)>>
    /\ ret' = NoReturn
    /\ raised' = NoException
    /\ finished' = NothingFinished
    /\ stroked' = NoEvent
    /\ UNCHANGED <<config, container, shared>>

\* Rule.clear_unmatched_rules() where Rule is the class the extension
\* imports: lib/Rule.py empties the memo, lib/builder.py has no such method.
clear_unmatched_rules_raises == impl = "builder"

\* TranslatorContainer.clear_shorter_outlines(): both class attributes.
clear_shorter_outlines(length) == [length EXCEPT !.class_value = -1]

\* The host fires the stroked event between two of its calls: on_stroked.
\* The memo is cleared, then the cached shorter-outline result.
HostStroked ==
    /\ wiring.translator
    /\ stack = <<>>
    /\ ~stroked.fired
    /\ ~clear_unmatched_rules_raises
    /\ unmatched_rules' = <<>>
    /\ checked_shorter_outlines' = FALSE
    /\ shorter_outline_length' = clear_shorter_outlines(shorter_outline_length)
    /\ stroked' = [fired |-> TRUE, raised |-> "none"]
    /\ UNCHANGED <<config, stack, ret, raised, lookups, finished, current_folds,
                   current_rules, checking_shorter_outlines, container_checking, last_check>>

\* on_stroked ends at its first statement with an AttributeError.
HostStrokedRaises ==
    /\ wiring.translator
    /\ stack = <<>>
    /\ ~stroked.fired
    /\ clear_unmatched_rules_raises
    /\ stroked' = [fired |-> TRUE, raised |-> "AttributeError"]
    /\ UNCHANGED <<config, container, shared, stack, ret, raised, lookups, finished>>

(***************************************************************************)
(* TranslatorContainer.check_shorter_outlines.  The value it returns goes  *)
(* to the host and is kept in last_check.                                  *)
(***************************************************************************)
ReturnCheck(how, result) ==
    /\ stack' = Popped
    /\ ret' = NoReturn
    /\ last_check' = [how |-> how, result |-> result, after_event |-> Top.after_event]

\* self.__shorter_outline_length: the instance attribute when it is set.
read_shorter_outline_length(length) ==
    IF length.instance_set THEN BoolValue(length.instance_value)
                           ELSE IntValue(length.class_value)

\* The strokes of the translations in the translator's state, up to
\* longest_key_len of them, oldest first.
state_strokes(longest_key_len) ==
    SubSeq(outline, 1, IF Len(outline) < longest_key_len THEN Len(outline) ELSE longest_key_len)

\* if self.translator is None: raise Exception(...)
CheckNoTranslator ==
    /\ Running("check", "enter")
    /\ translator_missing(wiring)
    /\ Raise(NotEnabled)
    /\ UNCHANGED <<config, container, stroked, shared, lookups, finished>>

\* if TranslatorContainer.checking_shorter_outlines: return -1
CheckSuppressed ==
    /\ Running("check", "enter")
    /\ ~translator_missing(wiring)
    /\ container_checking
    /\ ReturnCheck("suppressed", IntValue(-1))
    /\ UNCHANGED <<config, shared, raised, lookups, finished, stroked,
                   container_checking, checked_shorter_outlines, shorter_outline_length>>

\* if TranslatorContainer.__checked_shorter_outlines: return self.__shorter_outline_length
CheckCached ==
    /\ Running("check", "enter")
    /\ ~translator_missing(wiring)
    /\ ~container_checking
    /\ checked_shorter_outlines
    /\ ReturnCheck("cached", read_shorter_outline_length(shorter_outline_length))
    /\ UNCHANGED <<config, shared, raised, lookups, finished, stroked,
                   container_checking, checked_shorter_outlines, shorter_outline_length>>

CheckStart ==
    /\ Running("check", "enter")
    /\ ~translator_missing(wiring)
    /\ ~container_checking
    /\ ~checked_shorter_outlines
    /\ checked_shorter_outlines' = TRUE
    /\ container_checking' = TRUE
    /\ LET strokes == state_strokes(Top.longest_key_len)
       IN  stack' = WithTop([Top EXCEPT !.pc = "probe", !.strokes = strokes,
                                        !.start_index = Len(strokes) - 1])
    /\ UNCHANGED <<config, shared, ret, raised, lookups, finished, stroked,
                   shorter_outline_length, last_check>>

\* shorter_translation = self.translator.lookup(strokes[start_index:])
CheckProbe ==
    /\ Running("check", "probe")
    /\ Top.start_index >= 1
    /\ Call([Top EXCEPT !.pc = "probed"],
            LookupFrame(SubSeq(Top.strokes, Top.start_index + 1, Len(Top.strokes))))
    /\ UNCHANGED <<config, container, stroked, shared, raised, lookups, finished>>

CheckProbeNone ==
    /\ Running("check", "probed")
    /\ ret.set /\ ret.val = None
    /\ stack' = WithTop([Top EXCEPT !.pc = "probe", !.start_index = @ - 1])
    /\ ret' = NoReturn
    /\ UNCHANGED <<config, container, stroked, shared, raised, lookups, finished>>

\* self.__shorter_outline_length = True; return len(strokes) - start_index
CheckFound ==
    /\ Running("check", "probed")
    /\ ret.set /\ ret.val # None
    /\ container_checking' = FALSE
    /\ shorter_outline_length' =
            [shorter_outline_length EXCEPT !.instance_set = TRUE, !.instance_value = TRUE]
    /\ ReturnCheck("computed", IntValue(Len(Top.strokes) - Top.start_index))
    /\ UNCHANGED <<config, shared, raised, lookups, finished, stroked,
                   checked_shorter_outlines>>

\* self.__shorter_outline_length = False; return -1
CheckNotFound ==
    /\ Running("check", "probe")
    /\ Top.start_index < 1
    /\ container_checking' = FALSE
    /\ shorter_outline_length' =
            [shorter_outline_length EXCEPT !.instance_set = TRUE, !.instance_value = FALSE]
    /\ ReturnCheck("computed", IntValue(-1))
    /\ UNCHANGED <<config, shared, raised, lookups, finished, stroked,
                   checked_shorter_outlines>>

(***************************************************************************)
(* translator.lookup: the host's own entries first, then the folding       *)
(* dictionary, whose answer is the lookup's answer.                        *)
(***************************************************************************)
TranslatorLookupEntry ==
    /\ Running("lookup", "start")
    /\ Top.strokes \notin failing
    /\ Top.strokes \in DOMAIN dictionary
    /\ Return(Some(dictionary[Top.strokes]))
    /\ UNCHANGED <<config, container, stroked, shared, raised, lookups, finished>>

TranslatorLookupFolding ==
    /\ Running("lookup", "start")
    /\ Top.strokes \notin failing
    /\ Top.strokes \notin DOMAIN dictionary
    /\ stack' = WithTop(DictionaryFrame(Top.strokes))
    /\ UNCHANGED <<config, container, stroked, shared, ret, raised, lookups, finished>>

\* The host's lookup fails.
TranslatorLookupRaises ==
    /\ Running("lookup", "start")
    /\ Top.strokes \in failing
    /\ Raise("HostError")
    /\ UNCHANGED <<config, container, stroked, shared, lookups, finished>>

(***************************************************************************)
(* PythonFoldingDictionary.__lookup.                                       *)
(***************************************************************************)
\* if self.__rules is None: raise Exception(...)
DictionaryNotLoaded ==
    /\ Running("dictionary", "enter")
    /\ rules_missing(wiring)
    /\ Raise(NotLoaded)
    /\ UNCHANGED <<config, container, stroked, shared, lookups, finished>>

\* if translator_container.translator is None: raise Exception(...)
DictionaryNoTranslator ==
    /\ Running("dictionary", "enter")
    /\ ~rules_missing(wiring)
    /\ translator_missing(wiring)
    /\ Raise(NotEnabled)
    /\ UNCHANGED <<config, container, stroked, shared, lookups, finished>>

\* if PythonFoldingDictionary.__checking_shorter_outlines: return None
DictionarySuppressed ==
    /\ Running("dictionary", "enter")
    /\ ~rules_missing(wiring)
    /\ ~translator_missing(wiring)
    /\ checking_shorter_outlines
    /\ Return(None)
    /\ UNCHANGED <<config, container, stroked, shared, raised, lookups, finished>>

\* __checked_shorter_outlines is never set: the probe runs on every lookup.
DictionaryStartProbe ==
    /\ Running("dictionary", "enter")
    /\ ~rules_missing(wiring)
    /\ ~translator_missing(wiring)
    /\ ~checking_shorter_outlines
    /\ checking_shorter_outlines' = TRUE
    /\ stack' = WithTop([Top EXCEPT !.pc = "probe", !.start_index = Len(Top.strokes) - 1])
    /\ UNCHANGED <<config, container, stroked, current_folds, unmatched_rules, current_rules,
                   ret, raised, lookups, finished>>

\* for start_index in range(len(strokes) - 1, 0, -1): lookup(strokes[start_index:])
DictionaryProbe ==
    /\ Running("dictionary", "probe")
    /\ Top.start_index >= 1
    /\ Call([Top EXCEPT !.pc = "probed"],
            LookupFrame(SubSeq(Top.strokes, Top.start_index + 1, Len(Top.strokes))))
    /\ UNCHANGED <<config, container, stroked, shared, raised, lookups, finished>>

DictionaryProbeNone ==
    /\ Running("dictionary", "probed")
    /\ ret.set /\ ret.val = None
    /\ stack' = WithTop([Top EXCEPT !.pc = "probe", !.start_index = @ - 1])
    /\ ret' = NoReturn
    /\ UNCHANGED <<config, container, stroked, shared, raised, lookups, finished>>

DictionaryShorterFound ==
    /\ Running("dictionary", "probed")
    /\ ret.set /\ ret.val # None
    /\ checking_shorter_outlines' = FALSE
    /\ Return(None)
    /\ UNCHANGED <<config, container, stroked, current_folds, unmatched_rules, current_rules,
                   raised, lookups, finished>>

DictionaryProbeDone ==
    /\ Running("dictionary", "probe")
    /\ Top.start_index < 1
    /\ checking_shorter_outlines' = FALSE
    /\ stack' = WithTop([Top EXCEPT !.pc = "rules", !.rule_index = 1])
    /\ UNCHANGED <<config, container, stroked, current_folds, unmatched_rules, current_rules,
                   ret, raised, lookups, finished>>

\* A rule loop that never finds a rule in flight.
rule_in_flight_never(rule) == FALSE

\* Prevent a rule from looking up itself.
rule_in_flight(rule) == rule \in current_rules

\* if rule in self.__current_rules: continue
DictionarySkipRule ==
    /\ Running("dictionary", "rules")
    /\ Top.rule_index <= Len(rules)
    /\ rule_in_flight(rules[Top.rule_index])
    /\ stack' = WithTop([Top EXCEPT !.rule_index = @ + 1])
    /\ UNCHANGED <<config, container, stroked, shared, ret, raised, lookups, finished>>

\* The probe found no shorter outline, so the rule is called with
\* shorter_outline_found false.
DictionaryCallRule ==
    /\ Running("dictionary", "rules")
    /\ Top.rule_index <= Len(rules)
    /\ ~rule_in_flight(rules[Top.rule_index])
    /\ current_rules' = current_rules \cup {rules[Top.rule_index]}
    /\ Call([Top EXCEPT !.pc = "called"],
            RuleFrame(rules[Top.rule_index], Top.strokes, FALSE))
    /\ UNCHANGED <<config, container, stroked, current_folds, unmatched_rules, checking_shorter_outlines,
                   raised, lookups, finished>>

DictionaryRuleNone ==
    /\ Running("dictionary", "called")
    /\ ret.set /\ ret.val = None
    /\ current_rules' = current_rules \ {rules[Top.rule_index]}
    /\ stack' = WithTop([Top EXCEPT !.pc = "rules", !.rule_index = @ + 1])
    /\ ret' = NoReturn
    /\ UNCHANGED <<config, container, stroked, current_folds, unmatched_rules, checking_shorter_outlines,
                   raised, lookups, finished>>

DictionaryRuleTranslation ==
    /\ Running("dictionary", "called")
    /\ ret.set /\ ret.val # None
    /\ current_rules' = current_rules \ {rules[Top.rule_index]}
    /\ Return(ret.val)
    /\ UNCHANGED <<config, container, stroked, current_folds, unmatched_rules, checking_shorter_outlines,
                   raised, lookups, finished>>

DictionaryNoRule ==
    /\ Running("dictionary", "rules")
    /\ Top.rule_index > Len(rules)
    /\ Return(None)
    /\ UNCHANGED <<config, container, stroked, shared, raised, lookups, finished>>

(***************************************************************************)
(* Lookup strategies.                                                      *)
(***************************************************************************)
\* foldless_translation = translator.lookup(modify_outline(defolded_strokes))
StrategyLookupDefolded ==
    /\ Running("strategy", "start")
    /\ Call([Top EXCEPT !.pc = "foldless"],
            LookupFrame(modify_outline(Top.strategy, Top.defolded_strokes)))
    /\ UNCHANGED <<config, container, stroked, shared, raised, lookups, finished>>

\* if foldless_translation is None: return None
StrategyNoFoldless ==
    /\ Running("strategy", "foldless")
    /\ ret.set /\ ret.val = None
    /\ Return(None)
    /\ UNCHANGED <<config, container, stroked, shared, raised, lookups, finished>>

\* use_defolded_translation and the text transforms return after one lookup.
StrategyReturnFoldless ==
    /\ Running("strategy", "foldless")
    /\ ret.set /\ ret.val # None
    /\ Top.strategy.handler \notin {"unfold_suffix", "unfold_prefix"}
    /\ Return(Some(modify_translation(Top.strategy, ret.val[1])))
    /\ UNCHANGED <<config, container, stroked, shared, raised, lookups, finished>>

\* fold_chord_translation = translator.lookup((folds[-1],)) or ((folds[0],))
StrategyLookupFoldChord ==
    /\ Running("strategy", "foldless")
    /\ ret.set /\ ret.val # None
    /\ Top.strategy.handler \in {"unfold_suffix", "unfold_prefix"}
    /\ Call([Top EXCEPT !.pc = "fold_chord", !.foldless_translation = ret.val],
            LookupFrame(IF Top.strategy.handler = "unfold_suffix"
                        THEN <<Top.folds[Len(Top.folds)]>>
                        ELSE <<Top.folds[1]>>))
    /\ UNCHANGED <<config, container, stroked, shared, raised, lookups, finished>>

StrategyNoFoldChord ==
    /\ Running("strategy", "fold_chord")
    /\ ret.set /\ ret.val = None
    /\ Return(None)
    /\ UNCHANGED <<config, container, stroked, shared, raised, lookups, finished>>

StrategyReturnUnfolded ==
    /\ Running("strategy", "fold_chord")
    /\ ret.set /\ ret.val # None
    /\ Return(Some(IF Top.strategy.handler = "unfold_suffix"
                   THEN Top.foldless_translation[1] \o " " \o ret.val[1]
                   ELSE ret.val[1] \o " " \o Top.foldless_translation[1]))
    /\ UNCHANGED <<config, container, stroked, shared, raised, lookups, finished>>

(***************************************************************************)
(* Rule.__call__.                                                          *)
(***************************************************************************)
\* A memo that is never consulted.
memo_never_hit(rule, strokes) == FALSE

\* strokes in Rule.__unmatched_rules and self in Rule.__unmatched_rules[strokes]
memo_hit(rule, strokes) ==
    /\ impl = "Rule"
    /\ strokes \in DOMAIN unmatched_rules
    /\ rule \in unmatched_rules[strokes]

\* A check of the first chord that never finds it empty.
first_chord_never_empty(strokes) == FALSE

\* len(strokes[0]) == 0
first_chord_empty(strokes) == Cardinality(strokes[1]) = 0

\* A rule that goes on whatever the shorter-outline signal says.
shorter_outline_never_declines(rule, shorter_outline_found) == FALSE

\* shorter_outline_found and not self.__allow_shorter_outline (lib/Rule.py only)
shorter_outline_declines(rule, shorter_outline_found) ==
    /\ impl = "Rule"
    /\ shorter_outline_found
    /\ ~RuleDefs[rule].allow_shorter_outline

\* The pairs self.__prerequisite.satisfied_folds(strokes) yields.
\* self.__prerequisite.satisfied_folds(strokes): the pairs depend on the rule
\* and the outline alone, so they are tabulated once for every outline a rule
\* can be handed.
Chords == SUBSET Keys
EnumerableOutlines == UNION {[1..n -> Chords] : n \in 1..MaxLen}
prerequisite_pairs ==
    {<<rule, strokes, satisfied_folds(RuleDefs[rule].prerequisite, strokes)>> :
        rule \in RuleIds, strokes \in EnumerableOutlines}

rule_pairs(rule, strokes) ==
    (CHOOSE entry \in prerequisite_pairs : entry[1] = rule /\ entry[2] = strokes)[3]

\* The loop of lib/Rule.py over the claimed folds: an overlap ends it, and
\* folds[i] past the end of folds is an IndexError.
RECURSIVE merge_folds_Rule(_, _, _, _)
merge_folds_Rule(claimed, folds, i, new_folds) ==
    IF i > Len(claimed) THEN [status |-> "ok", new_folds |-> new_folds]
    ELSE IF i > Len(folds) THEN [status |-> "IndexError", new_folds |-> new_folds]
    ELSE IF strokes_overlap(claimed[i], folds[i]) THEN [status |-> "overlap", new_folds |-> new_folds]
    ELSE merge_folds_Rule(claimed, folds, i + 1, Append(new_folds, claimed[i] \cup folds[i]))

\* The loop of lib/builder.py: on an overlap `continue' goes on with the next
\* position, and the pair is kept.
RECURSIVE merge_folds_builder(_, _, _, _)
merge_folds_builder(claimed, folds, i, new_folds) ==
    IF i > Len(claimed) THEN [status |-> "ok", new_folds |-> new_folds]
    ELSE IF i > Len(folds) THEN [status |-> "IndexError", new_folds |-> new_folds]
    ELSE IF strokes_overlap(claimed[i], folds[i])
         THEN merge_folds_builder(claimed, folds, i + 1, new_folds)
    ELSE merge_folds_builder(claimed, folds, i + 1, Append(new_folds, claimed[i] \cup folds[i]))

\* "Ensure that folds between rules do not overlap".
claim_folds(table, folds) ==
    IF table.is_none THEN [status |-> "ok", new_folds |-> folds]
    ELSE IF impl = "Rule" THEN merge_folds_Rule(table.folds, folds, 1, <<>>)
    ELSE merge_folds_builder(table.folds, folds, 1, <<>>)

\* Rule.__unmatched_rules[defolded_strokes] = set(Rule.__unmatched_rules[strokes]) or set()
memo_propagate(memo, strokes, defolded_strokes) ==
    [o \in DOMAIN memo \cup {defolded_strokes} |->
        IF o = defolded_strokes
        THEN IF strokes \in DOMAIN memo THEN memo[strokes] ELSE {}
        ELSE memo[o]]

\* del Rule.__unmatched_rules[defolded_strokes]
memo_delete(memo, defolded_strokes) ==
    [o \in DOMAIN memo \ {defolded_strokes} |-> memo[o]]

\* Rule.__unmatched_rules[strokes].add(self), or = {self}
memo_add(memo, strokes, rule) ==
    [o \in DOMAIN memo \cup {strokes} |->
        IF o = strokes
        THEN IF strokes \in DOMAIN memo THEN memo[strokes] \cup {rule} ELSE {rule}
        ELSE memo[o]]

\* The three loops with the lookup strategies ahead of the additional rules.
call_order_strategies_first(rule) ==
    [j \in DOMAIN RuleDefs[rule].lookup_strategies |-> [phase |-> "lookup", index |-> j]]
    \o [j \in DOMAIN RuleDefs[rule].additional_rules |-> [phase |-> "additional", index |-> j]]
    \o [j \in DOMAIN RuleDefs[rule].alternative_rules |-> [phase |-> "alternative", index |-> j]]

\* The calls made for one pair, in the order of the three loops.
call_order(rule) ==
    [j \in DOMAIN RuleDefs[rule].additional_rules |-> [phase |-> "additional", index |-> j]]
    \o [j \in DOMAIN RuleDefs[rule].lookup_strategies |-> [phase |-> "lookup", index |-> j]]
    \o [j \in DOMAIN RuleDefs[rule].alternative_rules |-> [phase |-> "alternative", index |-> j]]

\* The claim table a Rule leaves when it returns a translation.
folds_on_translation(last_folds) ==
    IF impl = "Rule" THEN last_folds ELSE NoFolds

Finished(frame, how, result, exit_folds, exit_memo) ==
    [how |-> how, rule |-> frame.rule, strokes |-> frame.strokes,
     shorter_outline_found |-> frame.shorter_outline_found, result |-> result,
     entry_folds |-> frame.entry_folds, exit_folds |-> exit_folds,
     entry_memo |-> frame.entry_memo, exit_memo |-> exit_memo,
     pulled |-> frame.pair, invoked |-> frame.invoked, calls |-> frame.calls,
     results |-> frame.results, outcomes |-> frame.outcomes]

RuleMemoHit ==
    /\ Running("rule", "enter")
    /\ memo_hit(Top.rule, Top.strokes)
    /\ Return(None)
    /\ finished' = Finished(Top, "memo", None, current_folds, unmatched_rules)
    /\ UNCHANGED <<config, container, stroked, shared, raised, lookups>>

RuleEmptyFirstChord ==
    /\ Running("rule", "enter")
    /\ ~memo_hit(Top.rule, Top.strokes)
    /\ first_chord_empty(Top.strokes)
    /\ Return(None)
    /\ finished' = Finished(Top, "empty_first_chord", None, current_folds, unmatched_rules)
    /\ UNCHANGED <<config, container, stroked, shared, raised, lookups>>

RuleShorterOutline ==
    /\ Running("rule", "enter")
    /\ ~memo_hit(Top.rule, Top.strokes)
    /\ ~first_chord_empty(Top.strokes)
    /\ shorter_outline_declines(Top.rule, Top.shorter_outline_found)
    /\ Return(None)
    /\ finished' = Finished(Top, "shorter_outline", None, current_folds, unmatched_rules)
    /\ UNCHANGED <<config, container, stroked, shared, raised, lookups>>

RuleEnumerate ==
    /\ Running("rule", "enter")
    /\ ~memo_hit(Top.rule, Top.strokes)
    /\ ~first_chord_empty(Top.strokes)
    /\ ~shorter_outline_declines(Top.rule, Top.shorter_outline_found)
    /\ stack' = WithTop([Top EXCEPT !.pc = "pull",
                                    !.pairs = rule_pairs(Top.rule, Top.strokes)])
    /\ UNCHANGED <<config, container, stroked, shared, ret, raised, lookups, finished>>

\* The pairs taken from the last one backwards.
pull_pair_backwards(frame) == frame.pairs[Len(frame.pairs) - frame.pair]

\* for defolded_strokes, folds in ...: the pair the loop takes next.
pull_pair(frame) == frame.pairs[frame.pair + 1]

\* The generator is exhausted: the rule is recorded as unmatched for the
\* outline (lib/Rule.py) and None is returned.
RuleExhausted ==
    /\ Running("rule", "pull")
    /\ Top.pair >= Len(Top.pairs)
    /\ unmatched_rules' = IF impl = "Rule"
                          THEN memo_add(unmatched_rules, Top.strokes, Top.rule)
                          ELSE unmatched_rules
    /\ Return(None)
    /\ finished' = Finished(Top, "exhausted", None, current_folds, unmatched_rules')
    /\ UNCHANGED <<config, container, stroked, current_folds, current_rules, checking_shorter_outlines,
                   raised, lookups>>

\* The next pair is pulled and its folds are claimed.
RulePullPair ==
    /\ Running("rule", "pull")
    /\ Top.pair < Len(Top.pairs)
    /\ LET next_pair == pull_pair(Top)
           claim == claim_folds(current_folds, next_pair.folds)
       IN  /\ claim.status = "ok"
           /\ current_folds' = SomeFolds(claim.new_folds)
           /\ unmatched_rules' =
                IF impl = "Rule"
                THEN memo_propagate(unmatched_rules, Top.strokes, next_pair.defolded)
                ELSE unmatched_rules
           /\ stack' = WithTop([Top EXCEPT !.pc = "dispatch", !.pair = @ + 1,
                                           !.defolded_strokes = next_pair.defolded,
                                           !.folds = next_pair.folds,
                                           !.last_folds = current_folds,
                                           !.next = 1, !.calls = <<>>, !.results = <<>>])
    /\ UNCHANGED <<config, container, stroked, current_rules, checking_shorter_outlines,
                   ret, raised, lookups, finished>>

\* if overlap_found: continue
RuleSkipOverlap ==
    /\ Running("rule", "pull")
    /\ Top.pair < Len(Top.pairs)
    /\ LET next_pair == pull_pair(Top)
       IN  claim_folds(current_folds, next_pair.folds).status = "overlap"
    /\ stack' = WithTop([Top EXCEPT !.pair = @ + 1, !.outcomes = Append(@, "skipped")])
    /\ UNCHANGED <<config, container, stroked, shared, ret, raised, lookups, finished>>

\* folds[i] with i past the end of this outline's folds.
RuleClaimIndexError ==
    /\ Running("rule", "pull")
    /\ Top.pair < Len(Top.pairs)
    /\ LET next_pair == pull_pair(Top)
       IN  claim_folds(current_folds, next_pair.folds).status = "IndexError"
    /\ Raise("IndexError")
    /\ UNCHANGED <<config, container, stroked, shared, lookups, finished>>

RuleCallAdditional ==
    /\ Running("rule", "dispatch")
    /\ Top.next <= Len(call_order(Top.rule))
    /\ LET call == call_order(Top.rule)[Top.next]
       IN  /\ call.phase = "additional"
           /\ Call([Top EXCEPT !.pc = "await", !.invoked = @ + 1, !.calls = Append(@, call)],
                   RuleFrame(RuleDefs[Top.rule].additional_rules[call.index],
                             Top.defolded_strokes, Top.shorter_outline_found))
    /\ UNCHANGED <<config, container, stroked, shared, raised, lookups, finished>>

RuleCallStrategy ==
    /\ Running("rule", "dispatch")
    /\ Top.next <= Len(call_order(Top.rule))
    /\ LET call == call_order(Top.rule)[Top.next]
       IN  /\ call.phase = "lookup"
           /\ Call([Top EXCEPT !.pc = "await", !.invoked = @ + 1, !.calls = Append(@, call)],
                   StrategyFrame(RuleDefs[Top.rule].lookup_strategies[call.index],
                                 Top.defolded_strokes, Top.folds, Top.strokes))
    /\ UNCHANGED <<config, container, stroked, shared, raised, lookups, finished>>

RuleCallAlternative ==
    /\ Running("rule", "dispatch")
    /\ Top.next <= Len(call_order(Top.rule))
    /\ LET call == call_order(Top.rule)[Top.next]
       IN  /\ call.phase = "alternative"
           /\ Call([Top EXCEPT !.pc = "await", !.invoked = @ + 1, !.calls = Append(@, call)],
                   RuleFrame(RuleDefs[Top.rule].alternative_rules[call.index],
                             Top.defolded_strokes, Top.shorter_outline_found))
    /\ UNCHANGED <<config, container, stroked, shared, raised, lookups, finished>>

\* translation is None: on to the next call of the pair
RuleCalleeNone ==
    /\ Running("rule", "await")
    /\ ret.set /\ ret.val = None
    /\ stack' = WithTop([Top EXCEPT !.pc = "dispatch", !.next = @ + 1,
                                    !.results = Append(@, None)])
    /\ ret' = NoReturn
    /\ UNCHANGED <<config, container, stroked, shared, raised, lookups, finished>>

\* translation is not None: the claim table is reset and the translation returned
RuleReturnTranslation ==
    /\ Running("rule", "await")
    /\ ret.set /\ ret.val # None
    /\ current_folds' = folds_on_translation(Top.last_folds)
    /\ Return(ret.val)
    /\ finished' = Finished([Top EXCEPT !.results = Append(@, ret.val)], "translation",
                            ret.val, current_folds', unmatched_rules)
    /\ UNCHANGED <<config, container, stroked, unmatched_rules, current_rules, checking_shorter_outlines,
                   raised, lookups>>

\* Nothing matched for the pair: the claim table is restored and the memo
\* entry of the defolded outline deleted (lib/Rule.py).
RulePairFailed ==
    /\ Running("rule", "dispatch")
    /\ Top.next > Len(call_order(Top.rule))
    /\ impl = "Rule" => Top.defolded_strokes \in DOMAIN unmatched_rules
    /\ current_folds' = Top.last_folds
    /\ unmatched_rules' = IF impl = "Rule"
                          THEN memo_delete(unmatched_rules, Top.defolded_strokes)
                          ELSE unmatched_rules
    /\ stack' = WithTop([Top EXCEPT !.pc = "pull", !.outcomes = Append(@, "failed")])
    /\ UNCHANGED <<config, container, stroked, current_rules, checking_shorter_outlines,
                   ret, raised, lookups, finished>>

\* del of a memo entry that a nested invocation has deleted already.
RuleMemoKeyError ==
    /\ Running("rule", "dispatch")
    /\ Top.next > Len(call_order(Top.rule))
    /\ impl = "Rule"
    /\ Top.defolded_strokes \notin DOMAIN unmatched_rules
    /\ current_folds' = Top.last_folds
    /\ Raise("KeyError")
    /\ UNCHANGED <<config, container, stroked, unmatched_rules, current_rules, checking_shorter_outlines,
                   lookups, finished>>

Next ==
    \/ HostLookup
    \/ HostCallRule
    \/ HostCheckShorterOutlines
    \/ HostStroked
    \/ HostStrokedRaises
    \/ CheckNoTranslator
    \/ CheckSuppressed
    \/ CheckCached
    \/ CheckStart
    \/ CheckProbe
    \/ CheckProbeNone
    \/ CheckFound
    \/ CheckNotFound
    \/ TranslatorLookupEntry
    \/ TranslatorLookupFolding
    \/ TranslatorLookupRaises
    \/ DictionaryNotLoaded
    \/ DictionaryNoTranslator
    \/ DictionarySuppressed
    \/ DictionaryStartProbe
    \/ DictionaryProbe
    \/ DictionaryProbeNone
    \/ DictionaryShorterFound
    \/ DictionaryProbeDone
    \/ DictionarySkipRule
    \/ DictionaryCallRule
    \/ DictionaryRuleNone
    \/ DictionaryRuleTranslation
    \/ DictionaryNoRule
    \/ StrategyLookupDefolded
    \/ StrategyNoFoldless
    \/ StrategyReturnFoldless
    \/ StrategyLookupFoldChord
    \/ StrategyNoFoldChord
    \/ StrategyReturnUnfolded
    \/ RuleMemoHit
    \/ RuleEmptyFirstChord
    \/ RuleShorterOutline
    \/ RuleEnumerate
    \/ RuleExhausted
    \/ RulePullPair
    \/ RuleSkipOverlap
    \/ RuleClaimIndexError
    \/ RuleCallAdditional
    \/ RuleCallStrategy
    \/ RuleCallAlternative
    \/ RuleCalleeNone
    \/ RuleReturnTranslation
    \/ RulePairFailed
    \/ RuleMemoKeyError

Spec == Init /\ [][Next]_vars

\* Every step the interpreter can take is taken: one thread runs the lookup.
FairSpec == Spec /\ WF_vars(Next)

(***************************************************************************)
(* Rule-definition time.  Before any lookup the rule module builds Cases,  *)
(* Clauses and Rules and the engine evaluates them on chords; each         *)
(* behaviour of DefinitionSpec is one such evaluation, its arguments drawn *)
(* by DefinitionInit.                                                      *)
(***************************************************************************)
MaxConditions == 2   \* Conditions in a Clause under evaluation
MaxArguments == 2    \* rules handed to or_also / unless_also in one call
MaxSubstatements == 2   \* children of a Statement under evaluation
MaxElements == 2     \* top-level elements of a Prerequisite under evaluation

\* Conditions as the clause builders make them, plus one of two-key Cases.
ConditionPool ==
    { <<Case(T, {}), Case(Z, {})>>,
      <<Case(T, {}), Case(Z, {}), Case(D, {})>>,
      <<Case({}, Z), Case({}, D)>>,
      <<Case(T \cup Z, {})>>,
      <<Case(T, {}), Case(T \cup Z, {}), Case({}, Z)>>,
      <<Case(O, {})>> }

RECURSIVE SeqsUpTo(_, _)
SeqsUpTo(S, n) ==
    IF n = 0 THEN {<<>>}
    ELSE SeqsUpTo(S, n - 1) \cup
         {Append(q, x) : q \in {p \in SeqsUpTo(S, n - 1) : Len(p) = n - 1}, x \in S}

ClausePool ==
    {Clause(f, cs) : f \in {"first_stroke", "last_stroke", "all_strokes"},
                     cs \in SeqsUpTo(ConditionPool, MaxConditions) \ {<<>>}}

ClauseChords == {T \cup Z \cup D, T \cup Z, T, Z \cup D}

ClauseOutlines == SeqsUpTo(ClauseChords, MaxLen) \ {<<>>}

\* Children of a Statement: clauses that yield none, one or two case groups
\* on the outlines, and one nested Statement.
ChildPool ==
    { folds_clause("last_stroke", <<Z>>),
      folds_clause("first_stroke", <<T>>),
      folds_clause("last_stroke", <<T, D>>),
      toggles_clause("last_stroke", <<Z, D>>),
      Statement(FALSE, <<folds_clause("first_stroke", <<D>>), folds_clause("last_stroke", <<T>>)>>) }

StatementPool ==
    {Statement(conjunctive, children) :
        conjunctive \in BOOLEAN,
        children \in SeqsUpTo(ChildPool, MaxSubstatements) \ {<<>>}}

ElementPool ==
    { folds_clause("last_stroke", <<Z>>),
      folds_clause("last_stroke", <<T, D>>),
      toggles_clause("first_stroke", <<Z>>),
      Statement(TRUE, <<folds_clause("first_stroke", <<T>>), folds_clause("last_stroke", <<Z>>)>>),
      Statement(FALSE, <<folds_clause("last_stroke", <<D>>), folds_clause("last_stroke", <<T>>)>>) }

PrerequisitePool == SeqsUpTo(ElementPool, MaxElements) \ {<<>>}

CasePool == {Case(Z, {}), Case({}, Z), Case(D, T)}

GroupPool ==
    SeqsUpTo({[case |-> c, filter |-> f] :
                 c \in CasePool, f \in {"first_stroke", "last_stroke", "all_strokes"}},
             MaxConditions) \ {<<>>}

\* lib/builder.py's Rule has no allow_shorter_outline field: its rules are the
\* ones whose flag is the default.
Receivers(i) ==
    {RuleDefs[r] : r \in {q \in RuleIds : i = "Rule" \/ ~RuleDefs[q].allow_shorter_outline}}

DefinitionInputs(i) ==
    {Evaluation("Case", <<c, t>>, NoCase, NoClause, <<>>, RuleDefs["suffix_Z"], <<>>) :
        c \in Chords, t \in Chords}
    \cup
    {Evaluation("remove_fold", <<st>>, Case(c, t), NoClause, <<>>, RuleDefs["suffix_Z"], <<>>) :
        st \in Chords, c \in Chords, t \in Chords}
    \cup
    {Evaluation("satisfied_case_groups", <<>>, NoCase, cl, o, RuleDefs["suffix_Z"], <<>>) :
        cl \in ClausePool, o \in ClauseOutlines}
    \cup
    {Evaluation(b, <<>>, NoCase, NoClause, <<>>, rcv, args) :
        b \in {"or_also", "unless_also"}, rcv \in Receivers(i),
        args \in SeqsUpTo(RuleIds, MaxArguments)}
    \cup
    {Evaluation("preferring_folds", <<>>, NoCase, NoClause, <<>>, rcv, <<>>) :
        rcv \in Receivers(i)}
    \cup
    {[NotApplied EXCEPT !.fn = "statement_satisfied_case_groups", !.statement = st, !.strokes = o] :
        st \in StatementPool, o \in ClauseOutlines}
    \cup
    {[NotApplied EXCEPT !.fn = "satisfied_folds", !.prerequisite = p, !.strokes = o] :
        p \in PrerequisitePool, o \in ClauseOutlines}
    \cup
    {[NotApplied EXCEPT !.fn = "satisifed_cases", !.condition = cs, !.strokes = o] :
        cs \in ConditionPool, o \in ClauseOutlines}
    \cup
    {[NotApplied EXCEPT !.fn = "remove_folds", !.group = g, !.strokes = o] :
        g \in GroupPool, o \in ClauseOutlines}

DefinitionInit ==
    /\ impl \in {"Rule", "builder"}
    /\ applied \in DefinitionInputs(impl)
    /\ rules = <<"suffix_Z">>
    /\ dictionary = <<>>
    /\ failing = {}
    /\ outline = <<T>>
    /\ host_call \in {h \in HostCalls(impl, rules) : h.kind = "lookup"}
    /\ wiring = [rules_loaded |-> TRUE, translator |-> TRUE]
    /\ stack = <<>>
    /\ ret = NoReturn
    /\ raised = NoException
    /\ current_folds = NoFolds
    /\ unmatched_rules = <<>>
    /\ current_rules = {}
    /\ checking_shorter_outlines = FALSE
    /\ lookups = 0
    /\ finished = NothingFinished
    /\ container_checking = FALSE
    /\ checked_shorter_outlines = FALSE
    /\ shorter_outline_length = NoLength
    /\ last_check = NoCheck
    /\ stroked = NoEvent

engine == <<impl, rules, dictionary, failing, outline, host_call, wiring, container, stroked,
            stack, ret, raised, shared, lookups, finished>>

Pending(fn) == applied.fn = fn /\ ~applied.done

\* Case(contained, toggled): the constructor stores its two arguments.
ConstructCase ==
    /\ Pending("Case")
    /\ applied' = [applied EXCEPT !.done = TRUE,
                                  !.case = Case(applied.chords[1], applied.chords[2])]
    /\ UNCHANGED engine

\* case.remove_fold(stroke).
ApplyRemoveFold ==
    /\ Pending("remove_fold")
    /\ applied' = [applied EXCEPT !.done = TRUE,
                                  !.chord = remove_fold(applied.case, applied.chords[1])]
    /\ UNCHANGED engine

\* tuple(clause.satisfied_case_groups(strokes)).
EnumerateClause ==
    /\ Pending("satisfied_case_groups")
    /\ applied' = [applied EXCEPT
                        !.done = TRUE,
                        !.groups = clause_satisfied_case_groups(applied.clause, applied.strokes)]
    /\ UNCHANGED engine

\* receiver.or_also(*arguments): the receiver's fields are read, none is
\* assigned.
BuildOrAlso ==
    /\ Pending("or_also")
    /\ applied' = [applied EXCEPT !.done = TRUE,
                                  !.rule = or_also(applied.receiver, applied.arguments),
                                  !.receiver_after = applied.receiver]
    /\ UNCHANGED engine

BuildUnlessAlso ==
    /\ Pending("unless_also")
    /\ applied' = [applied EXCEPT !.done = TRUE,
                                  !.rule = unless_also(applied.receiver, applied.arguments),
                                  !.receiver_after = applied.receiver]
    /\ UNCHANGED engine

\* Only lib/Rule.py's Rule has preferring_folds.
BuildPreferringFolds ==
    /\ Pending("preferring_folds")
    /\ impl = "Rule"
    /\ applied' = [applied EXCEPT !.done = TRUE,
                                  !.rule = preferring_folds(applied.receiver),
                                  !.receiver_after = applied.receiver]
    /\ UNCHANGED engine

\* tuple(statement.satisfied_case_groups(strokes)).
EnumerateStatement ==
    /\ Pending("statement_satisfied_case_groups")
    /\ applied' = [applied EXCEPT
                        !.done = TRUE,
                        !.groups = satisfied_case_groups(applied.statement, applied.strokes)]
    /\ UNCHANGED engine

\* tuple(prerequisite.satisfied_folds(strokes)), twice.
EnumeratePrerequisite ==
    /\ Pending("satisfied_folds")
    /\ applied' = [applied EXCEPT
                        !.done = TRUE,
                        !.pairs = satisfied_folds(applied.prerequisite, applied.strokes),
                        !.pairs_again = satisfied_folds(applied.prerequisite, applied.strokes)]
    /\ UNCHANGED engine

\* tuple(condition.satisifed_cases(filtered_strokes)).
FilterCondition ==
    /\ Pending("satisifed_cases")
    /\ applied' = [applied EXCEPT
                        !.done = TRUE,
                        !.cases = satisifed_cases(applied.condition, applied.strokes)]
    /\ UNCHANGED engine

\* case_group.remove_folds(strokes) and case_group.get_folds(strokes).
ApplyCaseGroup ==
    /\ Pending("remove_folds")
    /\ applied' = [applied EXCEPT
                        !.done = TRUE,
                        !.defolded = remove_folds(applied.group, applied.strokes),
                        !.folds = get_folds(applied.group, applied.strokes)]
    /\ UNCHANGED engine

DefinitionNext ==
    \/ EnumerateStatement
    \/ EnumeratePrerequisite
    \/ FilterCondition
    \/ ApplyCaseGroup
    \/ ConstructCase
    \/ ApplyRemoveFold
    \/ EnumerateClause
    \/ BuildOrAlso
    \/ BuildUnlessAlso
    \/ BuildPreferringFolds

DefinitionSpec == DefinitionInit /\ [][DefinitionNext]_vars

(***************************************************************************)
(* Properties.                                                             *)
(***************************************************************************)
RuleFrames(frames) == {i \in DOMAIN frames : frames[i].kind = "rule"}

\* A rule frame that is evaluating a pair: the pair's folds are claimed and
\* its calls are being made.
Evaluating(frame) == frame.kind = "rule" /\ frame.pc \in {"dispatch", "await"}

OverlapsClaims(table, pair_folds) ==
    /\ ~table.is_none
    /\ \E i \in DOMAIN table.folds \cap DOMAIN pair_folds :
            (table.folds[i] \cap pair_folds[i]) # {}

\* C1: a pair whose folds share a key with the keys claimed at the same
\* position is skipped: no Rule invocation, in either implementation, ever
\* evaluates such a pair (makes calls for it, with its folds merged into the
\* claim table), and none returns a translation from one.
C1_OverlappingPairSkipped ==
    /\ \A i \in RuleFrames(stack) :
            Evaluating(stack[i]) => ~OverlapsClaims(stack[i].last_folds, stack[i].folds)
    /\ finished.how = "translation" =>
            ~OverlapsClaims(finished.exit_folds,
                            rule_pairs(finished.rule, finished.strokes)[finished.pulled].folds)

\* C1 in lib/Rule.py alone.
C1_RuleModuleSkipsOverlap == impl = "Rule" => C1_OverlappingPairSkipped

\* C2: every Rule invocation that returns (a translation or None) leaves the
\* claim table as it found it.
C2_TableRestoredOnReturn ==
    finished.how # "none" => finished.exit_folds = finished.entry_folds

\* C2 in lib/Rule.py alone.
C2_RuleModuleRestores == impl = "Rule" => C2_TableRestoredOnReturn

\* C3: when an exception leaves a Rule invocation, the claim table has the
\* value it had when that invocation was entered.
C3_TableRestoredOnException ==
    raised.kind # "none" =>
        \A i \in RuleFrames(raised.stack) : current_folds = raised.stack[i].entry_folds

\* C5: with rules loaded, a translator registered and a host lookup that
\* never fails, no lookup and no Rule invocation ends in an exception: the
\* claim-table loop and the memo deletion of Rule.__call__ never raise.
C5_NoBookkeepingException ==
    (failing = {} /\ ~rules_missing(wiring) /\ ~translator_missing(wiring)) =>
        raised.kind = "none"

\* The claim table a rule frame's pair asks for: the folds of the pair when
\* nothing was claimed, the union per position otherwise.
MergedClaims(frame) ==
    IF frame.last_folds.is_none THEN frame.folds
    ELSE [i \in DOMAIN frame.strokes |->
            (IF i \in DOMAIN frame.last_folds.folds THEN frame.last_folds.folds[i] ELSE {})
            \cup frame.folds[i]]

\* C6: when a Rule invocation starts the calls of a non-overlapping pair, the
\* claim table is a tuple as long as the outline whose entries are the unions
\* of the claimed keys and the pair's folds.
C6_ClaimsMergedPerPosition ==
    (/\ stack # <<>>
     /\ Top.kind = "rule" /\ Top.pc = "dispatch" /\ Top.next = 1
     /\ ~OverlapsClaims(Top.last_folds, Top.folds))
    => /\ ~current_folds.is_none
       /\ Len(current_folds.folds) = Len(Top.strokes)
       /\ current_folds.folds = MergedClaims(Top)

\* C6 in lib/Rule.py alone.
C6_RuleModuleMerges == impl = "Rule" => C6_ClaimsMergedPerPosition

\* A rule is being evaluated on an outline it is already evaluating.
Reentered(frames) ==
    \E i, j \in RuleFrames(frames) :
        i < j /\ frames[i].rule = frames[j].rule /\ frames[i].strokes = frames[j].strokes

DispatchPosition(rule, call) ==
    LET additional == Len(RuleDefs[rule].additional_rules)
        strategies == Len(RuleDefs[rule].lookup_strategies)
    IN  CASE call.phase = "additional"  -> call.index
          [] call.phase = "lookup"      -> additional + call.index
          [] call.phase = "alternative" -> additional + strategies + call.index

InDispatchOrder(rule, calls) ==
    \A k \in DOMAIN calls : DispatchPosition(rule, calls[k]) = k

\* The frame a rule frame's latest call has put above it.
IsCallee(frame, callee) ==
    LET call == frame.calls[Len(frame.calls)]
        definition == RuleDefs[frame.rule]
    IN  CASE call.phase = "additional" ->
                /\ callee.kind = "rule"
                /\ callee.rule = definition.additional_rules[call.index]
                /\ callee.strokes = frame.defolded_strokes
          [] call.phase = "lookup" ->
                /\ callee.kind = "strategy"
                /\ callee.strategy = definition.lookup_strategies[call.index]
                /\ callee.defolded_strokes = frame.defolded_strokes
                /\ callee.folds = frame.folds
                /\ callee.strokes = frame.strokes
          [] call.phase = "alternative" ->
                /\ callee.kind = "rule"
                /\ callee.rule = definition.alternative_rules[call.index]
                /\ callee.strokes = frame.defolded_strokes

\* C7: within one pair the calls are the additional rules, then the lookup
\* strategies, then the alternative rules, each in declared order and with
\* the arguments of its kind; a call is made only after every earlier one
\* returned None, and the first result that is not None is what the rule
\* returns, with no further call.
C7_DispatchOrder ==
    /\ \A i \in RuleFrames(stack) :
            LET frame == stack[i]
            IN  Evaluating(frame) =>
                    /\ InDispatchOrder(frame.rule, frame.calls)
                    /\ \A k \in DOMAIN frame.results : frame.results[k] = None
                    /\ Len(frame.calls) =
                            Len(frame.results) + (IF frame.pc = "await" THEN 1 ELSE 0)
                    /\ (frame.pc = "await" /\ i < Len(stack)) => IsCallee(frame, stack[i + 1])
    /\ finished.how = "translation" =>
            /\ InDispatchOrder(finished.rule, finished.calls)
            /\ Len(finished.results) = Len(finished.calls)
            /\ \A k \in DOMAIN finished.results :
                    (finished.results[k] = None) <=> (k < Len(finished.results))
            /\ finished.result = finished.results[Len(finished.results)]

\* An additional rule returned the translation of a rule that has lookup
\* strategies of its own, none of which was called.
C7_AdditionalRulePreempts ==
    /\ finished.how = "translation"
    /\ RuleDefs[finished.rule].additional_rules # <<>>
    /\ RuleDefs[finished.rule].lookup_strategies # <<>>
    /\ finished.calls = <<[phase |-> "additional", index |-> 1]>>

\* C8: a rule evaluates the pairs in the order the prerequisite yields them,
\* one at a time; when it returns a translation, every pair before the one
\* that gave it was skipped or failed, and no pair after it was pulled.
C8_FirstSuccessfulPairWins ==
    /\ \A i \in RuleFrames(stack) :
            LET frame == stack[i]
                pairs == satisfied_folds(RuleDefs[frame.rule].prerequisite, frame.strokes)
            IN  Evaluating(frame) =>
                    /\ frame.pair \in DOMAIN pairs
                    /\ frame.defolded_strokes = pairs[frame.pair].defolded
                    /\ frame.folds = pairs[frame.pair].folds
                    /\ Len(frame.outcomes) = frame.pair - 1
    /\ finished.how = "translation" =>
            LET pairs == satisfied_folds(RuleDefs[finished.rule].prerequisite, finished.strokes)
            IN  /\ finished.pulled \in DOMAIN pairs
                /\ Len(finished.outcomes) = finished.pulled - 1
                /\ \A k \in DOMAIN finished.outcomes :
                        finished.outcomes[k] \in {"skipped", "failed"}

\* A rule returned the translation of its second pair after the first failed.
C8_SecondPairTranslates ==
    /\ finished.how = "translation"
    /\ finished.pulled = 2
    /\ finished.outcomes = <<"failed">>

\* No chord the clause's filter selects contains the keys of any case of
\* one of its conditions.
ClauseUnsatisfied(clause, strokes) ==
    \E c \in DOMAIN clause.conditions :
        \A k \in DOMAIN clause.conditions[c] :
            LET filtered == stroke_filter(clause.filter, strokes)
            IN  \A s \in DOMAIN filtered :
                    ~(clause.conditions[c][k].contained \subseteq filtered[s])

\* C9: a clause none of whose filtered chords has the keys of a case of one
\* of its conditions yields no case group; a rule none of whose pairs gives a
\* translation returns None, leaves the claim table as it found it, and does
\* not raise.
C9_DeclineOnNoMatch ==
    /\ \A i \in RuleFrames(stack) :
            \A e \in DOMAIN RuleDefs[stack[i].rule].prerequisite :
                LET element == RuleDefs[stack[i].rule].prerequisite[e]
                IN  (element.kind = "clause" /\ ClauseUnsatisfied(element, stack[i].strokes))
                        => satisfied_case_groups(element, stack[i].strokes) = <<>>
    /\ finished.how = "exhausted" =>
            /\ finished.result = None
            /\ finished.exit_folds = finished.entry_folds
    /\ raised.kind # "none" =>
            raised.stack[Len(raised.stack)].kind # "rule"

\* The parts of C9 that do not depend on the rule raising.
C9_DeclinesWhenItReturns ==
    /\ \A i \in RuleFrames(stack) :
            \A e \in DOMAIN RuleDefs[stack[i].rule].prerequisite :
                LET element == RuleDefs[stack[i].rule].prerequisite[e]
                IN  (element.kind = "clause" /\ ClauseUnsatisfied(element, stack[i].strokes))
                        => satisfied_case_groups(element, stack[i].strokes) = <<>>
    /\ finished.how = "exhausted" =>
            /\ finished.result = None
            /\ finished.exit_folds = finished.entry_folds

\* C10: a rule handed an outline whose first chord has no keys returns None
\* at once: it never enumerates pairs, makes no call, and leaves the claim
\* table and the memo as they were.
C10_EmptyFirstChordDeclines ==
    /\ \A i \in RuleFrames(stack) :
            stack[i].strokes[1] = {} => (stack[i].pc = "enter" /\ stack[i].invoked = 0)
    /\ \A i \in RuleFrames(raised.stack) : raised.stack[i].strokes[1] # {}
    /\ (finished.how # "none" /\ finished.strokes[1] = {}) =>
            /\ finished.result = None
            /\ finished.pulled = 0
            /\ finished.invoked = 0
            /\ finished.exit_folds = finished.entry_folds
            /\ finished.exit_memo = finished.entry_memo

\* A rule nested in another rule's evaluation was handed an outline whose
\* first chord is empty, and has returned.
C10_EmptyFirstChordReturned ==
    /\ finished.how # "none"
    /\ finished.strokes[1] = {}
    /\ ~finished.entry_folds.is_none

\* The strictly shorter, non-empty suffixes strokes[i:] of an outline.
ProperSuffixes(strokes) ==
    {SubSeq(strokes, i + 1, Len(strokes)) : i \in 1..(Len(strokes) - 1)}

\* Some strictly shorter suffix has a translation of the host's own.
ShorterOutlineTranslated(strokes) ==
    \E suffix \in ProperSuffixes(strokes) : suffix \in DOMAIN dictionary

C11_LookupDeclinedForShorterOutline ==
    /\ stack = <<>> /\ lookups > 0
    /\ host_call.kind = "lookup"
    /\ ret.set /\ ret.val = None
    /\ ShorterOutlineTranslated(outline)
    /\ rule_pairs(rules[1], outline) # <<>>
    /\ finished.how = "none"

\* A rule built with preferring_folds() that is handed the shorter-outline
\* signal is evaluated all the same.
PreferringRuleGoesOn ==
    (/\ finished.how # "none"
     /\ finished.shorter_outline_found
     /\ RuleDefs[finished.rule].allow_shorter_outline)
        => finished.how # "shorter_outline"

\* C12: when a strictly shorter suffix of the outline has a host translation,
\* a rule built with preferring_folds() is still evaluated, both when it is
\* called with shorter_outline_found true and when it is reached through a
\* dictionary lookup: a finished lookup of such an outline, for which a
\* preferring rule of the rule list yields a pair, has invoked a rule.
C12_PreferFoldsExemption ==
    /\ PreferringRuleGoesOn
    /\ (/\ impl = "Rule"
        /\ host_call.kind = "lookup"
        /\ stack = <<>> /\ lookups > 0 /\ raised.kind = "none"
        /\ ShorterOutlineTranslated(outline)
        /\ \E k \in DOMAIN rules :
                /\ RuleDefs[rules[k]].allow_shorter_outline
                /\ rule_pairs(rules[k], outline) # <<>>)
            => finished.how # "none"

\* C12 for a rule that is called with shorter_outline_found true.
C12_PreferFoldsWhenCalled == [](PreferringRuleGoesOn)

\* A preferring rule that was handed the signal has returned a translation.
C12_PreferringRuleTranslated ==
    /\ finished.how = "translation"
    /\ finished.shorter_outline_found
    /\ RuleDefs[finished.rule].allow_shorter_outline

\* (outline, rule) is recorded in a memo.
InMemo(memo, strokes, rule) ==
    strokes \in DOMAIN memo /\ rule \in memo[strokes]

\* C13: a rule called on an outline for which the memo records it as
\* unmatched returns None at once: it enumerates no pair, makes no call and
\* leaves the claim table and the memo as they were; and a rule of lib/Rule.py
\* that has exhausted its pairs without a translation is recorded in the memo
\* for its outline when it returns.
C13_MemoSkip ==
    /\ \A i \in RuleFrames(stack) :
            InMemo(stack[i].entry_memo, stack[i].strokes, stack[i].rule)
                => (stack[i].pc = "enter" /\ stack[i].pair = 0 /\ stack[i].invoked = 0)
    /\ (finished.how # "none" /\ InMemo(finished.entry_memo, finished.strokes, finished.rule))
            => /\ finished.how = "memo"
               /\ finished.result = None
               /\ finished.pulled = 0
               /\ finished.invoked = 0
               /\ finished.exit_folds = finished.entry_folds
               /\ finished.exit_memo = finished.entry_memo
    /\ (impl = "Rule" /\ finished.how = "exhausted")
            => InMemo(finished.exit_memo, finished.strokes, finished.rule)

\* A rule whose prerequisite yields a pair for the outline has returned on
\* the memo, inside the evaluation of another rule.
C13_MemoSkippedMatchingRule ==
    /\ finished.how = "memo"
    /\ rule_pairs(finished.rule, finished.strokes) # <<>>
    /\ stack # <<>>

\* The top frame is a rule of lib/Rule.py whose latest pair has just failed:
\* every call made for it returned None.
PairJustFailed ==
    /\ impl = "Rule"
    /\ Running("rule", "pull")
    /\ Top.outcomes # <<>>
    /\ Top.outcomes[Len(Top.outcomes)] = "failed"

\* C14: after a rule has tried a pair that yielded no translation, the memo
\* has an entry for the defolded outline of that pair which holds this rule
\* and every rule recorded as unmatched for the original outline.
C14_FailedPairRecorded ==
    PairJustFailed =>
        /\ InMemo(unmatched_rules, Top.defolded_strokes, Top.rule)
        /\ Top.strokes \in DOMAIN unmatched_rules =>
                unmatched_rules[Top.strokes] \subseteq unmatched_rules[Top.defolded_strokes]

\* What lib/Rule.py does instead: the entry of the defolded outline is a copy
\* of the original outline's entry while the pair is evaluated and is deleted
\* when the pair has failed.
C14_FailedPairEntryDeleted ==
    PairJustFailed => Top.defolded_strokes \notin DOMAIN unmatched_rules

\* C15: every time the host fires the stroked event, the memo is empty and
\* the cached shorter-outline result is discarded when the handler is done;
\* and the first check_shorter_outlines call after the event computes its
\* answer from the external lookup.
C15_PerEntryReset ==
    /\ stroked.fired => (unmatched_rules = <<>> /\ ~checked_shorter_outlines)
    /\ last_check.after_event => last_check.how = "computed"

\* What holds of on_stroked when the Rule class it names is that of
\* lib/Rule.py: the memo and the checked flag are reset.
C15_RuleModuleResets ==
    (impl = "Rule" /\ stroked.fired) => (unmatched_rules = <<>> /\ ~checked_shorter_outlines)

\* The event has fired after a call that left a memo entry and the memo is
\* empty.
C15_MemoCleared ==
    /\ stroked.fired /\ stroked.raised = "none"
    /\ finished.how = "exhausted"
    /\ InMemo(finished.exit_memo, finished.strokes, finished.rule)
    /\ unmatched_rules = <<>>

Built(fn) == applied.fn = fn /\ applied.done

SameBut(result, receiver, fields) ==
    /\ "prerequisite" \in fields \/ result.prerequisite = receiver.prerequisite
    /\ "lookup_strategies" \in fields \/ result.lookup_strategies = receiver.lookup_strategies
    /\ "additional_rules" \in fields \/ result.additional_rules = receiver.additional_rules
    /\ "alternative_rules" \in fields \/ result.alternative_rules = receiver.alternative_rules
    /\ "allow_shorter_outline" \in fields
            \/ result.allow_shorter_outline = receiver.allow_shorter_outline

C17_OverlappingCaseRejected ==
    Built("Case") =>
        /\ strokes_overlap(applied.chords[1], applied.chords[2]) => applied.raised # "none"
        /\ applied.raised = "none" =>
                ~strokes_overlap(applied.case.contained, applied.case.toggled)

\* Each key of a substroke flipped on its own: present keys leave the chord,
\* absent keys join it.
FlipEachKey(stroke, substroke) == (stroke \ substroke) \cup (substroke \ stroke)

\* C18: remove_fold gives the chord without the keys of contained and with
\* each key of toggled flipped on its own, also for a chord that holds some
\* but not all keys of toggled.
C18_RemoveFoldFlipsEachKey ==
    Built("remove_fold") =>
        applied.chord =
            FlipEachKey(applied.chords[1] \ applied.case.contained, applied.case.toggled)

\* The same for the chords that hold all keys of toggled or none of them.
C18_RemoveFoldFlipsWholeSubstroke ==
    (/\ Built("remove_fold")
     /\ LET rest == applied.chords[1] \ applied.case.contained
        IN  applied.case.toggled \subseteq rest \/ applied.case.toggled \cap rest = {})
        => applied.chord =
              FlipEachKey(applied.chords[1] \ applied.case.contained, applied.case.toggled)

\* The fold of a Case on a base chord: contained is added, toggled is toggled.
Fold(case, base) == FlipEachKey(base \cup case.contained, case.toggled)

\* The base chords whose fold is the chord remove_fold was applied to, for a
\* Case with non-overlapping substrokes and a chord that contains contained
\* and no key of toggled.
RoundTripBases ==
    IF /\ Built("remove_fold")
       /\ ~strokes_overlap(applied.case.contained, applied.case.toggled)
       /\ applied.case.contained \subseteq applied.chords[1]
       /\ applied.case.toggled \cap applied.chords[1] = {}
    THEN {b \in Chords : Fold(applied.case, b) = applied.chords[1]}
    ELSE {}

\* C19 as stated: remove_fold of the folded chord returns the base chord, for
\* every base chord.
C19_RoundTripEveryBase ==
    \A b \in RoundTripBases : applied.chord = b

\* C19: remove_fold of the folded chord returns the base chord, for every
\* base chord that holds no key of contained (a Case with non-overlapping
\* substrokes, a folded chord that contains contained and no key of toggled).
C19_RoundTrip ==
    \A b \in RoundTripBases : b \cap applied.case.contained = {} => applied.chord = b

\* A round trip of a Case that both contains and toggles keys.
C19_FoldedAndDefolded ==
    /\ applied.case.contained # {}
    /\ applied.case.toggled # {}
    /\ \E b \in RoundTripBases : b \cap applied.case.contained = {} /\ applied.chord = b

\* The satisfied Cases of each Condition of the clause under evaluation, over
\* the filtered chords.
SatisfiedOptions ==
    [c \in DOMAIN applied.clause.conditions |->
        satisifed_cases(applied.clause.conditions[c],
                        stroke_filter(applied.clause.filter, applied.strokes))]

RECURSIVE ProductOfLens(_, _, _)
ProductOfLens(options, from, to) ==
    IF from > to THEN 1 ELSE Len(options[from]) * ProductOfLens(options, from + 1, to)

\* The option of Condition c in the g-th group when the last Condition varies
\* fastest, and when the first one does.
LastFastest(options, g, c) ==
    options[c][(((g - 1) \div ProductOfLens(options, c + 1, Len(options))) % Len(options[c])) + 1]

FirstFastest(options, g, c) ==
    options[c][(((g - 1) \div ProductOfLens(options, 1, c - 1)) % Len(options[c])) + 1]

\* The groups are as many as the product of the numbers of satisfied Cases,
\* and each holds one [case, filter] pair per Condition, in Condition order.
ProductOfGroups(options) ==
    /\ Len(applied.groups) = ProductOfLens(options, 1, Len(options))
    /\ \A g \in DOMAIN applied.groups :
            /\ Len(applied.groups[g]) = Len(options)
            /\ \A c \in DOMAIN options :
                    /\ applied.groups[g][c].filter = applied.clause.filter
                    /\ \E k \in DOMAIN options[c] : applied.groups[g][c].case = options[c][k]

\* C20: satisfied_case_groups yields the product of the numbers of satisfied
\* Cases many groups, each with one satisfied Case per Condition in Condition
\* order, in the order in which the last Condition's Case varies fastest.
C20_LastConditionVariesFastest ==
    Built("satisfied_case_groups") =>
        /\ ProductOfGroups(SatisfiedOptions)
        /\ \A g \in DOMAIN applied.groups : \A c \in DOMAIN SatisfiedOptions :
                applied.groups[g][c].case = LastFastest(SatisfiedOptions, g, c)

\* The same with the order the source yields: the first Condition's Case
\* varies fastest.
C20_FirstConditionVariesFastest ==
    Built("satisfied_case_groups") =>
        /\ ProductOfGroups(SatisfiedOptions)
        /\ \A g \in DOMAIN applied.groups : \A c \in DOMAIN SatisfiedOptions :
                applied.groups[g][c].case = FirstFastest(SatisfiedOptions, g, c)

\* A clause of two Conditions with two and three satisfied Cases was
\* enumerated.
C20_TwoByThree ==
    /\ Built("satisfied_case_groups")
    /\ Len(SatisfiedOptions) = 2
    /\ Len(SatisfiedOptions[1]) = 2
    /\ Len(SatisfiedOptions[2]) = 3
    /\ Len(applied.groups) = 6

\* The case groups each child of the statement under evaluation yields.
ChildGroups ==
    [c \in DOMAIN applied.statement.substatements |->
        satisfied_case_groups(applied.statement.substatements[c], applied.strokes)]

\* One case group of every child, by its index in the child's sequence.
Selections(sequences) ==
    {sel \in [DOMAIN sequences -> 1..Len(flatten(sequences))] :
        \A c \in DOMAIN sequences : sel[c] <= Len(sequences[c])}

Merged(sequences, sel) == flatten([c \in DOMAIN sequences |-> sequences[c][sel[c]]])

\* C21: a conjunctive Statement yields as many case groups as the product of
\* the numbers of case groups its children yield, each the merge of one case
\* group of every child and every such merge among them; so it yields nothing
\* when a child yields nothing.
C21_ConjunctiveCrossProduct ==
    (Built("statement_satisfied_case_groups") /\ applied.statement.conjunctive) =>
        /\ Len(applied.groups) = ProductOfLens(ChildGroups, 1, Len(ChildGroups))
        /\ \A g \in DOMAIN applied.groups :
                \E sel \in Selections(ChildGroups) : applied.groups[g] = Merged(ChildGroups, sel)
        /\ \A sel \in Selections(ChildGroups) :
                \E g \in DOMAIN applied.groups : applied.groups[g] = Merged(ChildGroups, sel)

\* What the source does: one case group, the merge of every case group of
\* every combination.
C21_ConjunctiveYieldsOneGroup ==
    (Built("statement_satisfied_case_groups") /\ applied.statement.conjunctive) =>
        Len(applied.groups) = 1

\* A conjunctive Statement with a child that yields nothing has yielded a
\* case group.
C21_GroupDespiteUnsatisfiedChild ==
    /\ Built("statement_satisfied_case_groups")
    /\ applied.statement.conjunctive
    /\ \E c \in DOMAIN ChildGroups : ChildGroups[c] = <<>>
    /\ applied.groups # <<>>

\* The children of the statement under evaluation that yield a case group.
YieldingChildren == {c \in DOMAIN ChildGroups : ChildGroups[c] # <<>>}

\* C22: a disjunctive Statement yields the case groups of its first child
\* that yields any, in that child's order, and nothing else; it yields
\* nothing only when no child yields.
C22_DisjunctiveFirstChild ==
    (Built("statement_satisfied_case_groups") /\ ~applied.statement.conjunctive) =>
        IF YieldingChildren = {}
        THEN applied.groups = <<>>
        ELSE \E c \in YieldingChildren :
                /\ \A d \in YieldingChildren : c <= d
                /\ applied.groups = ChildGroups[c]

\* A disjunctive Statement whose first and second child both yield, and
\* yield different case groups, was enumerated.
C22_LaterChildLeftOut ==
    /\ Built("statement_satisfied_case_groups")
    /\ ~applied.statement.conjunctive
    /\ YieldingChildren = {1, 2}
    /\ Len(ChildGroups[1]) = 2
    /\ \A g \in DOMAIN ChildGroups[2] : \A h \in DOMAIN applied.groups :
            ChildGroups[2][g] # applied.groups[h]

\* The positions of the Cases of the condition under evaluation whose
\* contained substroke is in every filtered chord.
IncludedCases ==
    {k \in DOMAIN applied.condition :
        \A i \in DOMAIN applied.strokes :
            applied.condition[k].contained \subseteq applied.strokes[i]}

ElementGroups ==
    [e \in DOMAIN applied.prerequisite |->
        satisfied_case_groups(applied.prerequisite[e], applied.strokes)]

\* The number of case groups the elements before e yield.
GroupsBefore(e) == Len(flatten(SubSeq(ElementGroups, 1, e - 1)))

SelectedPositions(filter, strokes) ==
    CASE filter = "first_stroke" -> <<1>>
      [] filter = "last_stroke"  -> <<Len(strokes)>>
      [] filter = "all_strokes"  -> [i \in DOMAIN strokes |-> i]

\* The Cases of the group under evaluation with the positions their filters
\* select, in the order of the group.
PositionTargets ==
    flatten([k \in DOMAIN applied.group |->
        LET selected == SelectedPositions(applied.group[k].filter, applied.strokes)
        IN  [s \in DOMAIN selected |->
                [case |-> applied.group[k].case, index |-> selected[s]]]])

TargetsAt(i) == SelectSeq(PositionTargets, LAMBDA t : t.index = i)

RECURSIVE RemoveEach(_, _)
RemoveEach(chord, targets) ==
    IF targets = <<>> THEN chord
    ELSE RemoveEach(remove_fold(Head(targets).case, chord), Tail(targets))

\* C25: remove_folds returns an outline of the same length; at a position the
\* filter of a Case selects the chord is that Case's remove_fold of the chord
\* there (of each such Case in turn), at every other position it is the
\* chord of the input.  get_folds returns at each position the union of the
\* fold substrokes of the Cases that target it, the empty chord elsewhere.
\* Positions count, not chord values: the same chord may stand at two
\* positions.
C25_FoldsByPosition ==
    Built("remove_folds") =>
        /\ Len(applied.defolded) = Len(applied.strokes)
        /\ Len(applied.folds) = Len(applied.strokes)
        /\ \A i \in DOMAIN applied.strokes :
                /\ applied.defolded[i] = RemoveEach(applied.strokes[i], TargetsAt(i))
                /\ applied.folds[i] =
                        UNION {fold_substroke(TargetsAt(i)[t].case) : t \in DOMAIN TargetsAt(i)}

\* The same for the outlines whose chords are pairwise different.
C25_FoldsByPositionDistinctChords ==
    (\A i, j \in DOMAIN applied.strokes : applied.strokes[i] = applied.strokes[j] => i = j)
        => C25_FoldsByPosition

\* A case group was applied to an outline with the same chord at two
\* positions, and changed the second position only.
C25_RepeatedChord ==
    /\ Built("remove_folds")
    /\ Len(applied.strokes) = 2
    /\ applied.strokes[1] = applied.strokes[2]
    /\ applied.defolded[1] = applied.strokes[1]
    /\ applied.defolded[2] # applied.strokes[2]

\* A step in which the strategy on top of the stack returns to its Rule.
StrategyReturned ==
    /\ stack # <<>>
    /\ Top.kind = "strategy"
    /\ stack' = Popped
    /\ ret'.set

\* A step in which the strategy on top of the stack calls the translator.
StrategyCalled ==
    /\ stack # <<>>
    /\ Top.kind = "strategy"
    /\ Len(stack') = Len(stack) + 1

\* What a strategy returns, given the translation of the defolded outline
\* (base) and, for the unfolding strategies, of the fold chord (fold_word).
StrategyResult(strategy, base, fold_word) ==
    CASE strategy.handler = "unfold_suffix" ->
            IF base = None \/ fold_word = None THEN None
            ELSE Some(base[1] \o " " \o fold_word[1])
      [] strategy.handler = "unfold_prefix" ->
            IF base = None \/ fold_word = None THEN None
            ELSE Some(fold_word[1] \o " " \o base[1])
      [] strategy.handler = "use_defolded_translation" -> base
      [] strategy.handler = "suffix_translation" ->
            IF base = None THEN None ELSE Some(base[1] \o strategy.string)
      [] OTHER -> base

\* C26: a strategy looks up the defolded outline first, and an unfolding
\* strategy then the one-chord outline of the last (unfold_suffix) or first
\* (unfold_prefix) fold chord; unfold_suffix returns "base fold-word",
\* unfold_prefix "fold-word base", use_defolded_translation the base, a text
\* transform the transform of the base, and each returns None when a lookup
\* it made returned None; on a None lookup the strategy returns, nothing is
\* raised, and the Rule goes on to its next call.
C26_StrategyResults ==
    [][/\ StrategyCalled =>
            stack'[Len(stack')] =
                LookupFrame(CASE Top.pc = "start" ->
                                    modify_outline(Top.strategy, Top.defolded_strokes)
                              [] Top.strategy.handler = "unfold_suffix" ->
                                    <<Top.folds[Len(Top.folds)]>>
                              [] OTHER -> <<Top.folds[1]>>)
       /\ StrategyReturned =>
            ret'.val = IF Top.pc = "foldless"
                       THEN StrategyResult(Top.strategy, ret.val, None)
                       ELSE StrategyResult(Top.strategy, Top.foldless_translation, ret.val)
       /\ (StrategyReturned /\ Top.pc = "foldless" /\ ret.val # None) =>
            Top.strategy.handler \notin {"unfold_suffix", "unfold_prefix"}
       /\ (stack # <<>> /\ Top.kind = "strategy" /\ ret.set /\ ret.val = None) =>
            (StrategyReturned /\ ret'.val = None /\ raised' = raised)
       /\ (/\ Running("rule", "await")
           /\ Top.calls[Len(Top.calls)].phase = "lookup"
           /\ ret.set /\ ret.val = None) =>
            /\ Len(stack') = Len(stack)
            /\ stack'[Len(stack')].pc = "dispatch"
            /\ stack'[Len(stack')].next = Top.next + 1
            /\ raised' = raised
      ]_vars

\* unfold_suffix returned None to full_D for a pair, and full_D went on to
\* use_defolded_translation for the same pair.
C26_NextStrategyAfterNone ==
    \E i \in DOMAIN stack :
        /\ stack[i].kind = "rule"
        /\ stack[i].rule = "full_D"
        /\ \E k \in DOMAIN stack[i].results :
                /\ stack[i].calls[k] = [phase |-> "lookup", index |-> 1]
                /\ stack[i].results[k] = None
                /\ k < Len(stack[i].calls)
                /\ stack[i].calls[k + 1] = [phase |-> "lookup", index |-> 2]

\* unfold_suffix has returned the base and the fold word, joined.
C26_UnfoldedSuffixReturned ==
    /\ stack # <<>>
    /\ Top.kind = "rule"
    /\ Top.pc = "await"
    /\ Top.calls[Len(Top.calls)].phase = "lookup"
    /\ RuleDefs[Top.rule].lookup_strategies[Top.calls[Len(Top.calls)].index] = unfold_suffix
    /\ ret.set
    /\ ret.val # None

\* The host of the suffix-fold scenario has called the rule
\* when(last_stroke.folds("-Z")).then(unfold_suffix) on the outline, without
\* a shorter-outline signal, and the call has returned.
SuffixFoldApplied(strokes) ==
    /\ dictionary = HostDictionary({ <<<<TPHO>>, "no">>, <<<<Z>>, "{plural}">> })
    /\ outline = strokes
    /\ host_call.kind = "rule"
    /\ host_call.rule = "suffix_Z"
    /\ ~host_call.shorter_outline_found
    /\ stack = <<>>
    /\ ret.set

\* C27 as stated: applied to the outline of the two chords TPHO and -Z the
\* rule returns "no {plural}".
C27_SuffixFoldTwoChords ==
    SuffixFoldApplied(<<TPHO, Z>>) => ret.val = Some("no {plural}")

\* C27: applied to the outline of the one chord TPHO with -Z folded in, the
\* rule returns "no {plural}".
C27_SuffixFold ==
    SuffixFoldApplied(<<TPHO \cup Z>>) => ret.val = Some("no {plural}")

\* The rule has been applied to the folded chord.
C27_SuffixFoldReturned ==
    /\ SuffixFoldApplied(<<TPHO \cup Z>>)
    /\ finished.how = "translation"
    /\ finished.strokes = <<TPHO \cup Z>>

\* C28: a dictionary lookup entered while the rules are not loaded or the
\* translator is not set raises an exception that says so, at once: no rule
\* was invoked by the lookup, and the in-flight set, the shorter-outline
\* flags, the claim table and the memo are as they were.
\* check_shorter_outlines raises likewise when the translator is not set.
C28_MisconfigurationRaises ==
    [][/\ (Running("dictionary", "enter") /\ ~wiring.rules_loaded) =>
            /\ raised' = [kind |-> NotLoaded, stack |-> stack]
            /\ stack' = <<>>
            /\ UNCHANGED <<shared, container, finished>>
       /\ (Running("dictionary", "enter") /\ wiring.rules_loaded /\ ~wiring.translator) =>
            /\ raised' = [kind |-> NotEnabled, stack |-> stack]
            /\ stack' = <<>>
            /\ UNCHANGED <<shared, container, finished>>
       /\ (Running("check", "enter") /\ ~wiring.translator) =>
            /\ raised' = [kind |-> NotEnabled, stack |-> stack]
            /\ stack' = <<>>
            /\ UNCHANGED <<shared, container, finished>>
      ]_vars

\* The host's lookup before the rules were loaded has raised.
C28_LookupBeforeLoad ==
    /\ host_call.kind = "lookup"
    /\ ~wiring.rules_loaded
    /\ lookups = MaxLookups
    /\ stack = <<>>
    /\ raised.kind = NotLoaded
    /\ Len(raised.stack) = 1
    /\ current_rules = {}
    /\ ~checking_shorter_outlines

\* check_shorter_outlines without a translator has raised.
C28_CheckWithoutTranslator ==
    /\ host_call.kind = "check"
    /\ ~wiring.translator
    /\ raised.kind = NotEnabled

\* A step in which a check_shorter_outlines call of the host returns, no
\* stroked event having fired since the call before it, which returned a
\* value too; neither call found the checking flag set.
SecondCheckReturned ==
    /\ Running("check", "enter") \/ Running("check", "probe") \/ Running("check", "probed")
    /\ Len(stack) = 1
    /\ stack' = <<>>
    /\ raised' = raised
    /\ ~Top.after_event
    /\ last_check.how \in {"computed", "cached"}
    /\ last_check'.how # "suppressed"

\* C29: between two stroked events a call of check_shorter_outlines returns
\* the value the first call returned (the length of the shorter suffix that
\* translates, or -1), and does not probe the translator again.  Values are
\* compared as Python compares them: True is 1 and False is 0.
C29_CachedValueIsFirstValue ==
    [][SecondCheckReturned =>
            /\ last_check'.how = "cached"
            /\ last_check'.result.value = last_check.result.value]_vars

\* What the source keeps: the second call does not probe, and returns
\* whether the first call found a shorter outline.
C29_CachedValueIsFound ==
    [][SecondCheckReturned =>
            /\ last_check'.how = "cached"
            /\ last_check'.result = BoolValue(last_check.result.value > 0)]_vars

\* A second call has returned from the cache.
C29_SecondCallCached ==
    /\ host_call.kind = "check"
    /\ lookups = MaxLookups
    /\ stack = <<>>
    /\ ~stroked.fired
    /\ last_check.how = "cached"
    /\ ~last_check.after_event

\* The rules a dictionary lookup on the call stack has invoked and is
\* waiting for.
DictionaryInvoked ==
    {rules[stack[i].rule_index] :
        i \in {j \in DOMAIN stack : stack[j].kind = "dictionary" /\ stack[j].pc = "called"}}

\* C30: while a lookup runs, re-entrant lookups included, and after it has
\* returned, the in-flight set holds exactly the rules whose invocation by
\* the dictionary is on the call stack; so it is empty once the outermost
\* lookup has returned.
C30_InFlightSetExact ==
    (stack # <<>> \/ raised.kind = "none") => current_rules = DictionaryInvoked

\* The same during the first call of the host and after its return, and at
\* all times the rules the dictionary waits for are in the set.
C30_InFlightSetUntilException ==
    /\ DictionaryInvoked \subseteq current_rules
    /\ (lookups <= 1 /\ (stack # <<>> \/ raised.kind = "none")) =>
            current_rules = DictionaryInvoked

\* A lookup runs with a rule in the in-flight set that no dictionary lookup
\* on the stack has invoked; the rule loop is about to skip it.
C30_StaleRuleSkipped ==
    /\ Running("dictionary", "rules")
    /\ Len(stack) = 1
    /\ Top.rule_index <= Len(rules)
    /\ rules[Top.rule_index] \in current_rules

\* The dictionary lookups on the call stack that are inside their probe of
\* the shorter suffixes.
ProbingLookups ==
    {i \in DOMAIN stack : stack[i].kind = "dictionary" /\ stack[i].pc \in {"probe", "probed"}}

\* Above a lookup that is probing, a lookup on the folding dictionary stays
\* at its entry and no rule is invoked.
ProbeSuppressesReentry ==
    \A i \in ProbingLookups : \A j \in DOMAIN stack :
        j > i => /\ stack[j].kind # "rule"
                 /\ stack[j].kind = "dictionary" => stack[j].pc = "enter"

\* C31: while a lookup probes the shorter suffixes, every re-entrant lookup
\* on the folding dictionary returns None without invoking a rule, and the
\* checking flag is false whenever no call is in progress, whichever way the
\* last one ended.
C31_ProbeFlagNeverStale ==
    /\ ProbeSuppressesReentry
    /\ stack = <<>> => ~checking_shorter_outlines

\* The same with the flag false after every call that returned, as long as
\* no call has raised: the flag is true exactly while a lookup on the stack
\* is probing.
C31_ProbeFlagUntilException ==
    /\ ProbeSuppressesReentry
    /\ ProbingLookups # {} => checking_shorter_outlines
    /\ (lookups <= 1 /\ (stack # <<>> \/ raised.kind = "none")) =>
            (checking_shorter_outlines <=> ProbingLookups # {})

\* The host's lookup itself is suppressed: the flag is set and no lookup on
\* the stack is probing.
C31_OutermostLookupSuppressed ==
    /\ Running("dictionary", "enter")
    /\ Len(stack) = 1
    /\ ~rules_missing(wiring) /\ ~translator_missing(wiring)
    /\ checking_shorter_outlines

\* The container's flag is false whenever no call is in progress.
C31_ContainerFlagNeverStale == stack = <<>> => ~container_checking

\* A rule that, called with an empty memo and an empty claim table, returns
\* a translation from its first pair and first strategy with one lookup
\* that the host's own entries answer.
TranslatesAtOnce(rule, strokes, shorter_outline_found) ==
    /\ ~first_chord_empty(strokes)
    /\ ~shorter_outline_declines(rule, shorter_outline_found)
    /\ RuleDefs[rule].additional_rules = <<>>
    /\ RuleDefs[rule].lookup_strategies # <<>>
    /\ rule_pairs(rule, strokes) # <<>>
    /\ LET strategy == RuleDefs[rule].lookup_strategies[1]
           looked_up == modify_outline(strategy, rule_pairs(rule, strokes)[1].defolded)
       IN  /\ strategy.handler \notin {"unfold_suffix", "unfold_prefix"}
           /\ looked_up \notin failing
           /\ looked_up \in DOMAIN dictionary

\* C32: a rule that returns None because it is in the memo for the outline
\* would return None as well when evaluated on that outline with an empty
\* memo and an empty claim table; in particular it is not a rule that would
\* translate the outline at once from the host's own entries.
C32_MemoHitSound ==
    (Running("rule", "enter") /\ memo_hit(Top.rule, Top.strokes)) =>
        ~TranslatesAtOnce(Top.rule, Top.strokes, Top.shorter_outline_found)

\* The invocations of a rule on the call stack have pulled no pair and
\* made no call, and the invocation of it that returned last returned None
\* without a call.
NeverDispatches(rule) ==
    /\ \A i \in RuleFrames(stack) :
            stack[i].rule = rule =>
                /\ stack[i].pc \in {"enter", "pull"}
                /\ stack[i].pairs = <<>>
                /\ stack[i].pair = 0
                /\ stack[i].invoked = 0
    /\ (finished.how # "none" /\ finished.rule = rule) =>
            /\ finished.result = None
            /\ finished.pulled = 0
            /\ finished.invoked = 0

\* C33: a Rule whose Prerequisite has no elements declines every outline
\* without invoking an additional rule, a lookup strategy or an alternative
\* rule; the rule group_rules(past_D, plural_Z) returns None for every
\* outline and never invokes past_D or plural_Z.
C33_EmptyPrerequisiteDeclines ==
    /\ \A rule \in RuleIds : RuleDefs[rule].prerequisite = <<>> => NeverDispatches(rule)
    /\ NeverDispatches("group_DZ")
    /\ \A i \in DOMAIN raised.stack :
            raised.stack[i].kind = "rule" => raised.stack[i].rule # "group_DZ"

\* The grouping rule has declined an outline that past_D, one of the rules
\* it groups, translates at once.
C33_GroupDeclinedTranslatableOutline ==
    /\ finished.rule = "group_DZ"
    /\ finished.how = "exhausted"
    /\ finished.result = None
    /\ TranslatesAtOnce("past_D", finished.strokes, FALSE)

TypeOK == Len(stack) <= MaxDepth
====
